---- MODULE Spec2Model ----
(***************************************************************************)
(* A model of the AI-tag search bot: the parameter parser and explainer    *)
(* (src/bot/param_explainer.py), the catalog client (src/bot/api_client.py)*)
(* the subscription store with the clicks that use it                      *)
(* (src/bot/database.py, src/bot/telegram_bot.py), and of telegram_bot.py  *)
(* the polling loop, searching and paging, and the detail and explanation  *)
(* views of a work.  Texts are strings and are scanned                     *)
(* character by character, as the regular expressions and the JSON decoder *)
(* of the source scan them.  Module strings are ASCII: the full-width      *)
(* colon U+FF1A of the inline pattern is written ";" in every text of the  *)
(* model, and the Chinese labels of the rendered output are written in     *)
(* ASCII.                                                                  *)
(***************************************************************************)
EXTENDS Integers, Sequences, FiniteSets, TLC

VARIABLES
    input,       \* how the text was put together: [kind, parts]
    text,        \* the prompt text handed to parse_parameters
    pc,          \* position of the call chain parse -> summary -> explain
    params,      \* the dict being built / returned: its items, in order
    loras,       \* the list `loras` of parse_comfyui_workflow
    todo,        \* workflow.items() still to be visited by the node loop
    ranWorkflow, \* parse_parameters called parse_comfyui_workflow
    caught,      \* the except clause of parse_comfyui_workflow ran
    raised,      \* the functions whose call ended in an exception
    summary,     \* what get_quick_summary returned
    explained    \* what explain_parameters returned

\* the catalog client (src/bot/api_client.py)
VARIABLES
    apc,         \* position of the call of the client
    call,        \* the method called, "" when none
    response,    \* the reply to the last HTTP request: [kind, body]
    works,       \* what extract_works returned: [err, v]
    total,       \* what get_total_count returned: [err, v]
    requests,    \* HTTP requests the call has issued
    failures,    \* of these, the ones that ended in an HTTP failure
    page,        \* the page of the last request of get_random_work
    result       \* what the call returned: [err, v]

\* the subscription store (src/bot/database.py) and the clicks on the
\* subscription buttons (src/bot/telegram_bot.py)
VARIABLES
    store,       \* the rows of the table subscriptions
    seq,         \* the last id AUTOINCREMENT has given out
    handlers     \* the clicks being handled: one record per update

parserVars == <<input, text, pc, params, loras, todo, ranWorkflow, caught, raised, summary, explained>>

apiVars == <<apc, call, response, works, total, requests, failures, page, result>>

\* the polling loop (src/bot/telegram_bot.py, _manual_polling) and the
\* updates Telegram holds for it
VARIABLES
    ppc,         \* position of the polling loop
    offset,      \* the offset of the next getUpdates request
    batch,       \* the updates of the batch still to be handled: their ids
    received,    \* the batch of the last successful getUpdates request
    polled,      \* how the last getUpdates request ended
    outcome,     \* per update id, how handling it ended
    dispatched,  \* per update id, how often it was handed to process_update
    arrived,     \* the updates 1..arrived have reached Telegram
    confirmed    \* the highest offset Telegram has seen

\* searching and paging through results (src/bot/telegram_bot.py)
VARIABLES
    vpc,         \* position of the handler of the update
    upd,         \* the update being handled
    asked,       \* the last request to the catalog: listing, keyword, page, size
    shown,       \* the message the user sees
    unhandled,   \* the exception that left the handler, "" when none
    catalog,     \* the number of works the catalog holds for the listing
    rpp          \* config.results_per_page

dbVars == <<store, seq, handlers>>

viewVars == <<vpc, upd, asked, shown, unhandled, catalog, rpp>>

pollVars == <<ppc, offset, batch, received, polled, outcome, dispatched, arrived, confirmed>>

\* the variables the parser and explainer do not touch
outsideParser == <<apiVars, dbVars, pollVars, viewVars>>

\* the variables the catalog client does not touch
outsideClient == <<parserVars, dbVars, pollVars, viewVars>>

\* the variables the subscription clicks do not touch
outsideDb == <<parserVars, apiVars, pollVars, viewVars>>

\* the variables the polling loop does not touch
outsidePoll == <<parserVars, apiVars, dbVars, viewVars>>

\* the variables searching and paging do not touch
outsideView == <<parserVars, apiVars, dbVars, pollVars>>

vars == <<parserVars, apiVars, dbVars, pollVars, viewVars>>

(***************************************************************************)
(* Characters and strings (Python str methods).                            *)
(***************************************************************************)
FWCOLON == ";"

UpperLetters == "ABCDEFGHIJKLMNOPQRSTUVWXYZ"

LowerLetters == "abcdefghijklmnopqrstuvwxyz"

Ch(s, i) == IF i >= 1 /\ i <= Len(s) THEN SubSeq(s, i, i) ELSE ""

LowerOf == [c \in {Ch(UpperLetters, i) : i \in 1..26} |->
               Ch(LowerLetters, CHOOSE i \in 1..26 : Ch(UpperLetters, i) = c)]

LowerCh(c) == IF c \in DOMAIN LowerOf THEN LowerOf[c] ELSE c

RECURSIVE Lower(_)
Lower(s) == IF s = "" THEN "" ELSE LowerCh(Ch(s, 1)) \o Lower(Tail(s))

\* \s of the re module, and the characters str.strip() removes
IsSpace(c) == c \in {" ", "\n", "\t", "\r"}

RECURSIVE LStrip(_)
LStrip(s) == IF s # "" /\ IsSpace(Ch(s, 1)) THEN LStrip(Tail(s)) ELSE s

RECURSIVE RStrip(_)
RStrip(s) ==
    IF s # "" /\ IsSpace(Ch(s, Len(s))) THEN RStrip(SubSeq(s, 1, Len(s) - 1)) ELSE s

Strip(s) == RStrip(LStrip(s))

RECURSIVE RStripComma(_)
RStripComma(s) ==
    IF s # "" /\ Ch(s, Len(s)) = "," THEN RStripComma(SubSeq(s, 1, Len(s) - 1)) ELSE s

StartsWithAt(s, i, w) == i + Len(w) - 1 <= Len(s) /\ SubSeq(s, i, i + Len(w) - 1) = w

\* the least element of a set of positions, 0 for the empty set
First(S) == IF S = {} THEN 0 ELSE CHOOSE p \in S : \A q \in S : p <= q

\* the greatest element of a set of positions, 0 for the empty set
Last(S) == IF S = {} THEN 0 ELSE CHOOSE p \in S : \A q \in S : q <= p

\* position of the first occurrence of w in s at or after i, 0 when there is none
FindFrom(s, w, i) == First({p \in i..(Len(s) - Len(w) + 1) : StartsWithAt(s, p, w)})

Contains(s, w) == FindFrom(s, w, 1) # 0

\* str.replace(old, ""), every occurrence, left to right
RECURSIVE Remove(_, _)
Remove(s, old) ==
    LET p == FindFrom(s, old, 1)
    IN  IF p = 0 THEN s
        ELSE SubSeq(s, 1, p - 1) \o Remove(SubSeq(s, p + Len(old), Len(s)), old)

\* ", ".join(names)
RECURSIVE Join(_, _)
Join(names, sep) ==
    IF names = <<>> THEN ""
    ELSE IF Len(names) = 1 THEN names[1]
    ELSE names[1] \o sep \o Join(Tail(names), sep)

\* first position at or after i whose character is not white space,
\* Len(s) + 1 if there is none
RECURSIVE SkipSpace(_, _)
SkipSpace(s, i) == IF IsSpace(Ch(s, i)) THEN SkipSpace(s, i + 1) ELSE i

\* first position at or after i whose character is in stop, Len(s) + 1 if none
RunEnd(s, i, stop) == First({p \in i..(Len(s) + 1) : p = Len(s) + 1 \/ Ch(s, p) \in stop})

(***************************************************************************)
(* Python values: what json.loads returns and what the dict holds.         *)
(***************************************************************************)
PyStr(s) == [t |-> "str", s |-> s, n |-> 0, kids |-> <<>>]

PyInt(n) == [t |-> "int", s |-> "", n |-> n, kids |-> <<>>]

\* a float, held as the text repr() gives it
PyFloat(r) == [t |-> "float", s |-> r, n |-> 0, kids |-> <<>>]

PyNone == [t |-> "None", s |-> "", n |-> 0, kids |-> <<>>]

PyBool(b) == [t |-> "bool", s |-> "", n |-> IF b THEN 1 ELSE 0, kids |-> <<>>]

PyList(items) == [t |-> "list", s |-> "", n |-> 0, kids |-> items]

PyDict(items) == [t |-> "dict", s |-> "", n |-> 0, kids |-> items]

IsStr(v) == v.t = "str"

IsDict(v) == v.t = "dict"

\* A dict is the sequence of its items, each [k |-> key, v |-> value], in
\* insertion order; params is such a sequence.
HasKey(d, k) == \E i \in 1..Len(d) : d[i].k = k

KeyIndex(d, k) == CHOOSE i \in 1..Len(d) : d[i].k = k

Get(d, k) == d[KeyIndex(d, k)].v

Keys(d) == [i \in 1..Len(d) |-> d[i].k]

\* d[k] = v: a new key goes last, an old key keeps its place
DictSet(d, k, v) ==
    IF HasKey(d, k) THEN [d EXCEPT ![KeyIndex(d, k)] = [k |-> k, v |-> v]]
    ELSE Append(d, [k |-> k, v |-> v])

(***************************************************************************)
(* Method 1 of parse_parameters: the inline "Key: Value" pattern           *)
(*   (Steps|...|VAE)\s*[:;]\s*([^,\n]+)   with re.IGNORECASE.              *)
(***************************************************************************)
KEYS == << "Steps", "Sampler", "CFG scale", "Seed", "Size", "Model", "Model hash",
           "Clip skip", "Denoising strength", "Schedule type", "VAE" >>

LowerKeys == [k \in 1..Len(KEYS) |-> Lower(KEYS[k])]

NoMatch == [ok |-> FALSE, key |-> "", value |-> "", end |-> 0]

\* s[i:i+len(w)] equals the lower-case word w when letter case is ignored
RECURSIVE MatchesIgnoreCase(_, _, _, _)
MatchesIgnoreCase(s, i, w, n) ==
    n > Len(w) \/ (LowerCh(Ch(s, i + n - 1)) = Ch(w, n) /\ MatchesIgnoreCase(s, i, w, n + 1))

\* The second \s* is greedy and gives characters back until [^,\n]+ can
\* start: the value starts at the last position of lo..hi that holds a
\* character other than a comma or a newline (0: the pattern fails here).
ValueStart(s, lo, hi) ==
    Last({p \in lo..hi : p <= Len(s) /\ Ch(s, p) \notin {",", "\n"}})

\* the pattern tried at position i with the k-th alternative of its group
MatchKeyAt(s, i, k) ==
    LET key == KEYS[k]
        j   == i + Len(key)
    IN  IF ~MatchesIgnoreCase(s, i, LowerKeys[k], 1) THEN NoMatch
        ELSE LET c == SkipSpace(s, j)
             IN  IF Ch(s, c) \notin {":", FWCOLON} THEN NoMatch
                 ELSE LET st == ValueStart(s, c + 1, SkipSpace(s, c + 1))
                          en == RunEnd(s, st, {",", "\n"})
                      IN  IF st = 0 THEN NoMatch
                          ELSE [ok |-> TRUE, key |-> SubSeq(s, i, j - 1),
                                value |-> SubSeq(s, st, en - 1), end |-> en]

\* the first alternative, in the order of the pattern, that matches at i
MatchAt(s, i) ==
    LET ks == {k \in 1..Len(KEYS) : MatchKeyAt(s, i, k).ok}
    IN  IF ks = {} THEN NoMatch ELSE MatchKeyAt(s, i, First(ks))

\* re.findall: the non-overlapping matches, leftmost first; starts holds the
\* positions where the pattern matches, i is where the scan goes on
RECURSIVE KeyMatchesFrom(_, _, _)
KeyMatchesFrom(s, starts, i) ==
    LET p == First({q \in starts : q >= i})
    IN  IF p = 0 THEN <<>>
        ELSE <<MatchAt(s, p)>> \o KeyMatchesFrom(s, starts, MatchAt(s, p).end)

FindAllKeys(s) == KeyMatchesFrom(s, {i \in 1..Len(s) : MatchAt(s, i).ok}, 1)

\* variant of StoreMatches: the key is stored in the letter case of the text
RECURSIVE StoreMatchesAsWritten(_, _)
StoreMatchesAsWritten(d, ms) ==
    IF ms = <<>> THEN d
    ELSE StoreMatchesAsWritten(DictSet(d, Strip(ms[1].key),
                                       PyStr(RStripComma(Strip(ms[1].value)))),
                               Tail(ms))

\* variant of StoreMatches: a key that is there already keeps its value
RECURSIVE StoreMatchesFirstWins(_, _)
StoreMatchesFirstWins(d, ms) ==
    IF ms = <<>> THEN d
    ELSE StoreMatchesFirstWins(IF HasKey(d, Strip(Lower(ms[1].key))) THEN d
                               ELSE DictSet(d, Strip(Lower(ms[1].key)),
                                            PyStr(RStripComma(Strip(ms[1].value)))),
                               Tail(ms))

\* for key, value in matches: params[key.lower().strip()] = value.strip().rstrip(',')
RECURSIVE StoreMatches(_, _)
StoreMatches(d, ms) ==
    IF ms = <<>> THEN d
    ELSE StoreMatches(DictSet(d, Strip(Lower(ms[1].key)),
                              PyStr(RStripComma(Strip(ms[1].value)))),
                      Tail(ms))

InlineScan(s) == StoreMatches(<<>>, FindAllKeys(s))

(***************************************************************************)
(* LoRA detection: <lora:([^:>]+):[^>]+> with re.IGNORECASE.               *)
(***************************************************************************)
\* variant of MatchLoraAt: the pattern without re.IGNORECASE
MatchLoraAtSameCase(s, i) ==
    LET j == i + 6
        e == RunEnd(s, j, {":", ">"})
        f == RunEnd(s, e + 1, {">"})
    IN  IF /\ StartsWithAt(s, i, "<lora:")
           /\ e > j
           /\ Ch(s, e) = ":"
           /\ f > e + 1
           /\ Ch(s, f) = ">"
        THEN [ok |-> TRUE, key |-> "", value |-> SubSeq(s, j, e - 1), end |-> f + 1]
        ELSE NoMatch

\* the pattern tried at position i: the NAME group and the end of the match
MatchLoraAt(s, i) ==
    LET j == i + 6
        e == RunEnd(s, j, {":", ">"})
        f == RunEnd(s, e + 1, {">"})
    IN  IF /\ MatchesIgnoreCase(s, i, "<lora:", 1)
           /\ e > j
           /\ Ch(s, e) = ":"
           /\ f > e + 1
           /\ Ch(s, f) = ">"
        THEN [ok |-> TRUE, key |-> "", value |-> SubSeq(s, j, e - 1), end |-> f + 1]
        ELSE NoMatch

\* re.findall: group 1 of the non-overlapping matches, leftmost first
RECURSIVE LoraMatchesFrom(_, _, _)
LoraMatchesFrom(s, starts, i) ==
    LET p == First({q \in starts : q >= i})
    IN  IF p = 0 THEN <<>>
        ELSE <<MatchLoraAt(s, p).value>> \o LoraMatchesFrom(s, starts, MatchLoraAt(s, p).end)

FindAllLoras(s) == LoraMatchesFrom(s, {i \in 1..Len(s) : MatchLoraAt(s, i).ok}, 1)

\* variant of LoraScan: the lora entry is put before the inline keys
LoraScanFirst(d, s) ==
    LET lora_matches == FindAllLoras(s)
    IN  IF lora_matches # <<>>
        THEN <<[k |-> "lora", v |-> PyStr(Join(lora_matches, ", "))]>> \o d
        ELSE d

\* lines 163-165
LoraScan(d, s) ==
    LET lora_matches == FindAllLoras(s)
    IN  IF lora_matches # <<>> THEN DictSet(d, "lora", PyStr(Join(lora_matches, ", ")))
        ELSE d

(***************************************************************************)
(* json.loads, for the JSON this model's texts hold: objects, arrays,      *)
(* strings with the escapes \" \\ \/ \n \r \t, integers, decimal fractions *)
(* without exponent, true, false and null.                                 *)
(***************************************************************************)
Digits == "0123456789"

IsDigit(c) == c # "" /\ Contains(Digits, c)

DigitValue(c) == FindFrom(Digits, c, 1) - 1

\* int(digits)
RECURSIVE ToInt(_, _)
ToInt(ds, acc) == IF ds = "" THEN acc ELSE ToInt(Tail(ds), 10 * acc + DigitValue(Ch(ds, 1)))

\* str(n) of an int
RECURSIVE NatStr(_)
NatStr(n) == IF n < 10 THEN Ch(Digits, n + 1) ELSE NatStr(n \div 10) \o Ch(Digits, (n % 10) + 1)

IntStr(n) == IF n < 0 THEN "-" \o NatStr(-n) ELSE NatStr(n)

RECURSIVE RStripZeros(_)
RStripZeros(s) ==
    IF s # "" /\ Ch(s, Len(s)) = "0" THEN RStripZeros(SubSeq(s, 1, Len(s) - 1)) ELSE s

\* first position at or after i that holds no digit
RECURSIVE DigitsEnd(_, _)
DigitsEnd(s, i) == IF IsDigit(Ch(s, i)) THEN DigitsEnd(s, i + 1) ELSE i

JFail == [ok |-> FALSE, v |-> PyNone, end |-> 0]

JOk(v, end) == [ok |-> TRUE, v |-> v, end |-> end]

\* py_scanstring: i is the position after the opening quote
RECURSIVE ScanString(_, _, _)
ScanString(s, i, acc) ==
    LET c == Ch(s, i)
        e == Ch(s, i + 1)
    IN  IF c = "" THEN JFail
        ELSE IF c = "\"" THEN JOk(PyStr(acc), i + 1)
        ELSE IF c = "\\" THEN
            IF e \in {"\"", "\\", "/"} THEN ScanString(s, i + 2, acc \o e)
            ELSE IF e = "n" THEN ScanString(s, i + 2, acc \o "\n")
            ELSE IF e = "r" THEN ScanString(s, i + 2, acc \o "\r")
            ELSE IF e = "t" THEN ScanString(s, i + 2, acc \o "\t")
            ELSE JFail
        ELSE IF c \in {"\n", "\r", "\t"} THEN JFail
        ELSE ScanString(s, i + 1, acc \o c)

\* NUMBER_RE: -?(0|[1-9]\d*)(\.\d+)? at i
ScanNumber(s, i) ==
    LET neg  == Ch(s, i) = "-"
        a    == IF neg THEN i + 1 ELSE i
        b    == IF Ch(s, a) = "0" THEN a + 1 ELSE DigitsEnd(s, a)
        f    == IF Ch(s, b) = "." THEN DigitsEnd(s, b + 1) ELSE b
        n    == ToInt(SubSeq(s, a, b - 1), 0)
        frac == RStripZeros(SubSeq(s, b + 1, f - 1))
    IN  IF b = a THEN JFail
        ELSE IF f > b + 1
        THEN JOk(PyFloat((IF neg THEN "-" ELSE "") \o NatStr(n) \o "."
                         \o (IF frac = "" THEN "0" ELSE frac)), f)
        ELSE JOk(PyInt(IF neg THEN -n ELSE n), b)

RECURSIVE ScanOnce(_, _), ScanMembers(_, _, _), ScanElements(_, _, _)
\* scan_once: the value that starts at i
ScanOnce(s, i) ==
    LET c == Ch(s, i)
    IN  IF c = "\"" THEN ScanString(s, i + 1, "")
        ELSE IF c = "{" THEN
            LET j == SkipSpace(s, i + 1)
            IN  IF Ch(s, j) = "}" THEN JOk(PyDict(<<>>), j + 1)
                ELSE ScanMembers(s, j, <<>>)
        ELSE IF c = "[" THEN
            LET j == SkipSpace(s, i + 1)
            IN  IF Ch(s, j) = "]" THEN JOk(PyList(<<>>), j + 1)
                ELSE ScanElements(s, j, <<>>)
        ELSE IF StartsWithAt(s, i, "null") THEN JOk(PyNone, i + 4)
        ELSE IF StartsWithAt(s, i, "true") THEN JOk(PyBool(TRUE), i + 4)
        ELSE IF StartsWithAt(s, i, "false") THEN JOk(PyBool(FALSE), i + 5)
        ELSE ScanNumber(s, i)

\* JSONObject: i is where a key must start; a repeated key keeps its first
\* place and takes the last value
ScanMembers(s, i, items) ==
    IF Ch(s, i) # "\"" THEN JFail
    ELSE LET key == ScanString(s, i + 1, "")
             c   == SkipSpace(s, key.end)
             val == ScanOnce(s, SkipSpace(s, c + 1))
             e   == SkipSpace(s, val.end)
         IN  IF ~key.ok \/ Ch(s, c) # ":" THEN JFail
             ELSE IF ~val.ok THEN JFail
             ELSE IF Ch(s, e) = "}" THEN JOk(PyDict(DictSet(items, key.v.s, val.v)), e + 1)
             ELSE IF Ch(s, e) = ","
                  THEN ScanMembers(s, SkipSpace(s, e + 1), DictSet(items, key.v.s, val.v))
             ELSE JFail

\* JSONArray: i is where an element must start
ScanElements(s, i, items) ==
    LET val == ScanOnce(s, i)
        e   == SkipSpace(s, val.end)
    IN  IF ~val.ok THEN JFail
        ELSE IF Ch(s, e) = "]" THEN JOk(PyList(Append(items, val.v)), e + 1)
        ELSE IF Ch(s, e) = "," THEN ScanElements(s, SkipSpace(s, e + 1), Append(items, val.v))
        ELSE JFail

\* json.loads(s): one value, white space around it, nothing after it
JsonLoads(s) ==
    LET r == ScanOnce(s, SkipSpace(s, 1))
    IN  IF r.ok /\ SkipSpace(s, r.end) = Len(s) + 1 THEN r ELSE JFail

\* re.search(r'\{[\s\S]*\}', text).group(): from the first "{" to the last "}"
JsonMatch(s) ==
    LET a == FindFrom(s, "{", 1)
        b == Last({p \in 1..Len(s) : Ch(s, p) = "}"})
    IN  IF a # 0 /\ b > a THEN [ok |-> TRUE, group |-> SubSeq(s, a, b)]
        ELSE [ok |-> FALSE, group |-> ""]

(***************************************************************************)
(* Python operations the node loop applies to decoded values.  A result of *)
(* "E" is a raised TypeError.                                              *)
(***************************************************************************)
\* bool(v)
Truthy(v) ==
    CASE v.t = "str" -> v.s # ""
      [] v.t = "int" -> v.n # 0
      [] v.t = "float" -> v.s \notin {"0.0", "-0.0"}
      [] v.t = "bool" -> v.n = 1
      [] v.t = "None" -> FALSE
      [] OTHER -> v.kids # <<>>

\* w in v, w a string: a substring of a str, an element of a list, a key of a
\* dict; any other v raises TypeError
PyIn(w, v) ==
    CASE v.t = "str" -> IF Contains(v.s, w) THEN "T" ELSE "F"
      [] v.t = "list" -> IF \E i \in 1..Len(v.kids) : v.kids[i].t = "str" /\ v.kids[i].s = w
                         THEN "T" ELSE "F"
      [] v.t = "dict" -> IF HasKey(v.kids, w) THEN "T" ELSE "F"
      [] OTHER -> "E"

\* a in v or b in v
PyInOr(a, b, v) == IF PyIn(a, v) = "F" THEN PyIn(b, v) ELSE PyIn(a, v)

\* d.get(k, default) of a dict d
DictGet(d, k, default) == IF HasKey(d.kids, k) THEN Get(d.kids, k) ELSE default

RECURSIVE Repr(_), ReprItems(_, _)
\* repr(v); a str is shown in single quotes
Repr(v) ==
    CASE v.t = "str" -> "'" \o v.s \o "'"
      [] v.t = "int" -> IntStr(v.n)
      [] v.t = "float" -> v.s
      [] v.t = "bool" -> IF v.n = 1 THEN "True" ELSE "False"
      [] v.t = "None" -> "None"
      [] v.t = "list" -> "[" \o ReprItems(v.kids, FALSE) \o "]"
      [] OTHER -> "{" \o ReprItems(v.kids, TRUE) \o "}"

ReprItems(items, keyed) ==
    IF items = <<>> THEN ""
    ELSE (IF keyed THEN "'" \o items[1].k \o "': " \o Repr(items[1].v) ELSE Repr(items[1]))
         \o (IF Len(items) > 1 THEN ", " ELSE "")
         \o ReprItems(Tail(items), keyed)

\* str(v), also what an f-string shows of v
Str(v) == IF v.t = "str" THEN v.s ELSE Repr(v)

\* re.search(r'<lora:([^:>]+)', s), case-sensitive: group(1) of the first
\* match, "" when there is none (group(1) itself is never empty)
RECURSIVE SearchLoraName(_, _)
SearchLoraName(s, i) ==
    LET p == FindFrom(s, "<lora:", i)
        e == RunEnd(s, p + 6, {":", ">"})
    IN  IF p = 0 THEN ""
        ELSE IF e > p + 6 THEN SubSeq(s, p + 6, e - 1)
        ELSE SearchLoraName(s, p + 1)

(***************************************************************************)
(* parse_comfyui_workflow: the body of the node loop.  st is the state     *)
(* [params, loras, err] the loop carries; err names a raised exception     *)
(* ("" when there is none) and nothing after it runs.                      *)
(***************************************************************************)
WithParam(st, k, v) == [st EXCEPT !.params = DictSet(st.params, k, v)]

Raise(st, kind) == [st EXCEPT !.err = kind]

\* variant of CheckpointBranch: the word is looked for in any letter case
CheckpointBranchAnyCase(st, class_type, inputs) ==
    LET lowered   == IF IsStr(class_type) THEN PyStr(Lower(class_type.s)) ELSE class_type
        hit       == PyInOr("checkpoint", "checkpointloader", lowered)
        ckpt_name == DictGet(inputs, "ckpt_name", PyStr(""))
    IN  IF hit = "E" THEN Raise(st, "TypeError")
        ELSE IF hit = "F" THEN st
        ELSE IF ~IsDict(inputs) THEN Raise(st, "AttributeError")
        ELSE IF ~Truthy(ckpt_name) THEN st
        ELSE IF ~IsStr(ckpt_name) THEN Raise(st, "AttributeError")
        ELSE WithParam(st, "checkpoint",
                       PyStr(Remove(Remove(ckpt_name.s, ".safetensors"), ".ckpt")))

\* lines 96-101
CheckpointBranch(st, class_type, inputs) ==
    LET hit       == PyInOr("Checkpoint", "CheckpointLoader", class_type)
        ckpt_name == DictGet(inputs, "ckpt_name", PyStr(""))
    IN  IF hit = "E" THEN Raise(st, "TypeError")
        ELSE IF hit = "F" THEN st
        ELSE IF ~IsDict(inputs) THEN Raise(st, "AttributeError")
        ELSE IF ~Truthy(ckpt_name) THEN st
        ELSE IF ~IsStr(ckpt_name) THEN Raise(st, "AttributeError")
        ELSE WithParam(st, "checkpoint",
                       PyStr(Remove(Remove(ckpt_name.s, ".safetensors"), ".ckpt")))

\* lines 104-112
LoraBranch(st, class_type, inputs) ==
    LET hit       == PyInOr("Lora", "LoRA", class_type)
        t         == DictGet(inputs, "text", PyStr(""))
        lora_text == IF Truthy(t) THEN t ELSE DictGet(inputs, "lora_name", PyStr(""))
        name      == SearchLoraName(lora_text.s, 1)
    IN  IF hit = "E" THEN Raise(st, "TypeError")
        ELSE IF hit = "F" THEN st
        ELSE IF ~IsDict(inputs) THEN Raise(st, "AttributeError")
        ELSE IF ~Truthy(lora_text) THEN st
        ELSE IF ~IsStr(lora_text) THEN Raise(st, "TypeError")
        ELSE IF name # "" THEN [st EXCEPT !.loras = Append(@, name)]
        ELSE IF ~StartsWithAt(lora_text.s, 1, "<")
             THEN [st EXCEPT !.loras = Append(@, Remove(lora_text.s, ".safetensors"))]
        ELSE st

\* variant of SamplerField: no value goes through str()
SamplerFieldRaw(st, inputs, field, key, stringify) ==
    LET has == PyIn(field, inputs)
        v   == Get(inputs.kids, field)
    IN  IF st.err # "" THEN st
        ELSE IF has = "E" THEN Raise(st, "TypeError")
        ELSE IF has = "F" THEN st
        ELSE IF ~IsDict(inputs) THEN Raise(st, "TypeError")
        ELSE WithParam(st, key, v)

\* one `if "<field>" in inputs: params[<key>] = ...` of lines 116-125;
\* stringify: the value goes through str()
SamplerField(st, inputs, field, key, stringify) ==
    LET has == PyIn(field, inputs)
        v   == Get(inputs.kids, field)
    IN  IF st.err # "" THEN st
        ELSE IF has = "E" THEN Raise(st, "TypeError")
        ELSE IF has = "F" THEN st
        ELSE IF ~IsDict(inputs) THEN Raise(st, "TypeError")
        ELSE WithParam(st, key, IF stringify THEN PyStr(Str(v)) ELSE v)

\* lines 115-125
SamplerBranch(st, class_type, inputs) ==
    LET hit == PyInOr("KSampler", "Sampler", class_type)
        s1  == SamplerField(st, inputs, "steps", "steps", TRUE)
        s2  == SamplerField(s1, inputs, "cfg", "cfg scale", TRUE)
        s3  == SamplerField(s2, inputs, "sampler_name", "sampler", FALSE)
        s4  == SamplerField(s3, inputs, "scheduler", "schedule type", FALSE)
    IN  IF hit = "E" THEN Raise(st, "TypeError")
        ELSE IF hit = "F" THEN st
        ELSE SamplerField(s4, inputs, "seed", "seed", TRUE)

\* lines 128-131
VaeBranch(st, class_type, inputs) ==
    LET hit      == PyIn("VAE", class_type)
        vae_name == DictGet(inputs, "vae_name", PyStr(""))
    IN  IF hit = "E" THEN Raise(st, "TypeError")
        ELSE IF hit = "F" THEN st
        ELSE IF ~IsDict(inputs) THEN Raise(st, "AttributeError")
        ELSE IF ~Truthy(vae_name) THEN st
        ELSE IF ~IsStr(vae_name) THEN Raise(st, "AttributeError")
        ELSE WithParam(st, "vae", PyStr(Remove(vae_name.s, ".safetensors")))

\* lines 89-131, one iteration of `for node_id, node_data in workflow.items()`
VisitNode(st, node_data) ==
    LET class_type == DictGet(node_data, "class_type", PyStr(""))
        inputs     == DictGet(node_data, "inputs", PyDict(<<>>))
        s1 == CheckpointBranch(st, class_type, inputs)
        s2 == IF s1.err # "" THEN s1 ELSE LoraBranch(s1, class_type, inputs)
        s3 == IF s2.err # "" THEN s2 ELSE SamplerBranch(s2, class_type, inputs)
    IN  IF ~IsDict(node_data) THEN st
        ELSE IF s3.err # "" THEN s3
        ELSE VaeBranch(s3, class_type, inputs)

\* lines 133-137, after the loop
FinishWorkflow(d, names) ==
    LET withLora == IF names # <<>> THEN DictSet(d, "lora", PyStr(Join(names, ", "))) ELSE d
    IN  IF withLora # <<>> THEN DictSet(withLora, "workflow", PyStr("ComfyUI")) ELSE withLora

\* variant of Catches: `except json.JSONDecodeError` alone
CatchesJsonOnly(kind) == kind = "JSONDecodeError"

\* line 139: `except (json.JSONDecodeError, Exception)` catches every
\* exception the try block raises
Catches(kind) == kind \in {"JSONDecodeError", "TypeError", "AttributeError"}

(***************************************************************************)
(* get_quick_summary.  The emoji that open the fragments are written as    *)
(* ASCII tags and the suffix of the steps fragment as " steps".            *)
(***************************************************************************)
NameLimit == 20

NameKeep == 17

\* s.split(",")[0]
BeforeComma(s) == SubSeq(s, 1, RunEnd(s, 1, {","}) - 1)

\* s.split(): is there a token, and the first one
HasToken(s) == LStrip(s) # ""

FirstToken(s) == SubSeq(LStrip(s), 1, RunEnd(LStrip(s), 1, {" ", "\n", "\t", "\r"}) - 1)

\* variant of ModelPart: a long name keeps NameLimit characters before "..."
ModelPartLongCut(d) ==
    LET a == IF HasKey(d, "model") THEN Get(d, "model") ELSE PyNone
        model_name == IF Truthy(a) THEN a
                      ELSE IF HasKey(d, "checkpoint") THEN Get(d, "checkpoint") ELSE PyNone
        name == Strip(BeforeComma(model_name.s))
    IN  IF ~Truthy(model_name) THEN <<>>
        ELSE IF ~IsStr(model_name) THEN <<"E">>
        ELSE IF Len(name) > NameLimit THEN <<"[model] " \o SubSeq(name, 1, NameLimit) \o "...">>
        ELSE <<"[model] " \o name>>

\* lines 205-210: the model fragment, <<>> when there is none; "E" on a raise
ModelPart(d) ==
    LET a == IF HasKey(d, "model") THEN Get(d, "model") ELSE PyNone
        model_name == IF Truthy(a) THEN a
                      ELSE IF HasKey(d, "checkpoint") THEN Get(d, "checkpoint") ELSE PyNone
        name == Strip(BeforeComma(model_name.s))
    IN  IF ~Truthy(model_name) THEN <<>>
        ELSE IF ~IsStr(model_name) THEN <<"E">>
        ELSE IF Len(name) > NameLimit THEN <<"[model] " \o SubSeq(name, 1, NameKeep) \o "...">>
        ELSE <<"[model] " \o name>>

\* lines 212-216
StepsPart(d) == IF HasKey(d, "steps") THEN <<"[steps] " \o Str(Get(d, "steps")) \o " steps">> ELSE <<>>

CfgPart(d) == IF HasKey(d, "cfg scale") THEN <<"[cfg] CFG " \o Str(Get(d, "cfg scale"))>> ELSE <<>>

\* lines 218-220: params["sampler"].split()[0]
SamplerPart(d) ==
    IF ~HasKey(d, "sampler") THEN <<>>
    ELSE IF ~IsStr(Get(d, "sampler")) THEN <<"E">>
    ELSE IF ~HasToken(Get(d, "sampler").s) THEN <<"E">>
    ELSE <<"[sampler] " \o FirstToken(Get(d, "sampler").s)>>

\* lines 222-223
WorkflowPart(d) == IF HasKey(d, "workflow") THEN <<"[tool] " \o Str(Get(d, "workflow"))>> ELSE <<>>

\* get_quick_summary(params): [ok |-> it returned, out |-> the string]
QuickSummary(d) ==
    LET parts == ModelPart(d) \o StepsPart(d) \o CfgPart(d) \o SamplerPart(d) \o WorkflowPart(d)
    IN  IF ModelPart(d) = <<"E">> \/ SamplerPart(d) = <<"E">> THEN [ok |-> FALSE, out |-> ""]
        ELSE [ok |-> TRUE, out |-> Join(parts, " | ")]

(***************************************************************************)
(* explain_parameters.  PARAM_EXPLANATIONS with its names and descriptions *)
(* in ASCII.                                                               *)
(***************************************************************************)
PARAM_EXPLANATIONS ==
    [k \in {"steps", "sampler", "cfg scale", "seed", "size", "model", "checkpoint",
            "model hash", "clip skip", "denoising strength", "schedule type", "vae",
            "lora", "workflow"} |->
        [name |-> "(" \o k \o ")", desc |-> "about " \o k]]

NoParamsMessage == "No parameters to explain.\n\nPossible reasons:\n- non-standard workflow\n- not published\n- removed"

\* variant of EntryLines: the workflow entry is not skipped
RECURSIVE EntryLinesAll(_, _)
EntryLinesAll(d, i) ==
    IF i > Len(d) THEN <<>>
    ELSE LET key   == d[i].k
             value == Str(d[i].v)
             rest  == EntryLinesAll(d, i + 1)
         IN  IF Lower(key) \in DOMAIN PARAM_EXPLANATIONS
             THEN << "<b>* " \o PARAM_EXPLANATIONS[Lower(key)].name \o "</b>",
                     "   value: <code>" \o value \o "</code>",
                     "   hint: " \o PARAM_EXPLANATIONS[Lower(key)].desc \o "\n" >> \o rest
             ELSE << "<b>* " \o key \o "</b>: <code>" \o value \o "</code>\n" >> \o rest

\* lines 185-195: the lines of the entries from the i-th on
RECURSIVE EntryLines(_, _)
EntryLines(d, i) ==
    IF i > Len(d) THEN <<>>
    ELSE LET key   == d[i].k
             value == Str(d[i].v)
             rest  == EntryLines(d, i + 1)
         IN  IF key = "workflow" THEN rest
             ELSE IF Lower(key) \in DOMAIN PARAM_EXPLANATIONS
             THEN << "<b>* " \o PARAM_EXPLANATIONS[Lower(key)].name \o "</b>",
                     "   value: <code>" \o value \o "</code>",
                     "   hint: " \o PARAM_EXPLANATIONS[Lower(key)].desc \o "\n" >> \o rest
             ELSE << "<b>* " \o key \o "</b>: <code>" \o value \o "</code>\n" >> \o rest

\* the list `lines` of explain_parameters for a non-empty dict
ExplainLines(d) ==
    << "<b>AI parameters explained</b>\n" >>
    \o (IF HasKey(d, "workflow")
        THEN << "<b>tool</b>: " \o Str(Get(d, "workflow")) \o "\n" >> ELSE <<>>)
    \o EntryLines(d, 1)

\* explain_parameters(params)
Explain(d) == IF d = <<>> THEN NoParamsMessage ELSE Join(ExplainLines(d), "\n")

(***************************************************************************)
(* The texts the model hands to parse_parameters.                          *)
(***************************************************************************)
MaxPairs == 2

MaxPieces == 3

MaxNodes == 2

Pair(key, colon, value) ==
    [kind |-> "pair", text |-> key \o colon \o value, key |-> key, value |-> value]

Tag(open, name, weight) ==
    [kind |-> "tag", text |-> open \o name \o ":" \o weight \o ">", key |-> "", value |-> name]

Raw(s) == [kind |-> "raw", text |-> s, key |-> "", value |-> ""]

\* `Key: value` pairs: every key of the pattern, in several letter cases,
\* with both colons and with white space around the value
PairAtoms ==
    { Pair("Steps", ": ", "20"), Pair("STEPS", ":", "30"), Pair("SAMPLER", ": ", "Euler a"),
      Pair("cfg Scale", " ; ", "7.5 "), Pair("Seed", ":", "12345"),
      Pair("size", ": ", "512x768"), Pair("Model", ": ", "animeXL v3"),
      Pair("model HASH", ":", "a1b2"), Pair("Clip skip", ": ", "2"),
      Pair("DENOISING strength", ": ", "0.5"), Pair("Schedule type", ";", "Karras"),
      Pair("vae", ":\t", "vae-ft.pt") }

\* pieces of free text: a pair, LoRA tags, separators, a key without a
\* value, and a workflow in JSON (two of them in a row do not decode)
PieceAtoms ==
    { Pair("Steps", ": ", "20"),
      Tag("<lora:", "charA", "0.8"), Tag("<LoRA:", "b", "1"),
      Raw(", "), Raw("\n"), Raw("Sampler: "),
      Raw("{\"3\": {\"class_type\": \"KSampler\", \"inputs\": {\"steps\": 5}}}") }

Node(class_type, inputs) ==
    PyDict(<< [k |-> "class_type", v |-> class_type], [k |-> "inputs", v |-> inputs] >>)

Inputs1(k, v) == PyDict(<< [k |-> k, v |-> v] >>)

\* the nodes of a workflow
NodeAtoms ==
    { Node(PyStr("CheckpointLoaderSimple"), Inputs1("ckpt_name", PyStr("foo.safetensors"))),
      Node(PyStr("CheckpointLoaderSimple"), Inputs1("ckpt_name", PyStr("sd xl/base.safetensors"))),
      Node(PyStr("KSampler"),
           PyDict(<< [k |-> "steps", v |-> PyInt(25)], [k |-> "cfg", v |-> PyInt(6)],
                     [k |-> "sampler_name", v |-> PyStr("dpmpp_2m")],
                     [k |-> "seed", v |-> PyInt(999)] >>)),
      Node(PyStr("KSampler"),
           PyDict(<< [k |-> "seed", v |-> PyInt(0)], [k |-> "steps", v |-> PyInt(8)],
                     [k |-> "cfg", v |-> PyFloat("7.5")],
                     [k |-> "sampler_name", v |-> PyStr("euler")] >>)),
      Node(PyStr("KSamplerAdvanced"),
           PyDict(<< [k |-> "steps", v |-> PyList(<<PyStr("4"), PyInt(0)>>)],
                     [k |-> "sampler_name", v |-> PyList(<<PyStr("5"), PyInt(1)>>)],
                     [k |-> "scheduler", v |-> PyStr("karras")],
                     [k |-> "seed", v |-> PyNone] >>)),
      Node(PyStr("LoraLoader"), Inputs1("lora_name", PyStr("style.safetensors"))),
      Node(PyStr("checkpointLoader"), Inputs1("ckpt_name", PyStr("low.ckpt"))),
      Node(PyStr("VAELoader"), PyStr("vae.pt")),
      PyDict(<< [k |-> "class_type", v |-> PyInt(5)] >>),
      PyStr("note") }

\* the sequences of at most n elements of S
RECURSIVE SeqsUpTo(_, _)
SeqsUpTo(S, n) ==
    IF n = 0 THEN {<<>>}
    ELSE LET shorter == SeqsUpTo(S, n - 1)
         IN  shorter \cup {Append(q, x) : q \in {r \in shorter : Len(r) = n - 1}, x \in S}

PairLists == SeqsUpTo(PairAtoms, MaxPairs) \ {<<>>}

PieceLists == SeqsUpTo(PieceAtoms, MaxPieces)

NodeLists == SeqsUpTo(NodeAtoms, MaxNodes)

RECURSIVE TextsOf(_)
TextsOf(parts) == IF parts = <<>> THEN <<>> ELSE <<parts[1].text>> \o TextsOf(Tail(parts))

\* the workflow dict of a node list: node i under the id str(i)
Workflow(nodes) == PyDict([i \in 1..Len(nodes) |-> [k |-> IntStr(i), v |-> nodes[i]]])

RECURSIVE EscapeJson(_)
EscapeJson(s) ==
    IF s = "" THEN ""
    ELSE (CASE Ch(s, 1) = "\"" -> "\\\""
            [] Ch(s, 1) = "\\" -> "\\\\"
            [] Ch(s, 1) = "\n" -> "\\n"
            [] OTHER -> Ch(s, 1)) \o EscapeJson(Tail(s))

\* json.dumps(v)
RECURSIVE JsonDumps(_), DumpItems(_, _)
JsonDumps(v) ==
    CASE v.t = "str" -> "\"" \o EscapeJson(v.s) \o "\""
      [] v.t = "int" -> IntStr(v.n)
      [] v.t = "float" -> v.s
      [] v.t = "bool" -> IF v.n = 1 THEN "true" ELSE "false"
      [] v.t = "None" -> "null"
      [] v.t = "list" -> "[" \o DumpItems(v.kids, FALSE) \o "]"
      [] OTHER -> "{" \o DumpItems(v.kids, TRUE) \o "}"

DumpItems(items, keyed) ==
    IF items = <<>> THEN ""
    ELSE (IF keyed THEN "\"" \o EscapeJson(items[1].k) \o "\": " \o JsonDumps(items[1].v)
          ELSE JsonDumps(items[1]))
         \o (IF Len(items) > 1 THEN ", " ELSE "")
         \o DumpItems(Tail(items), keyed)

\* a function that has not been called yet has no result
NotCalled == [err |-> "-", v |-> PyNone]

\* no reply has been received
NoReply == [kind |-> "none", body |-> PyNone]

\* no call of the client is under way
ApiIdle ==
    /\ apc = "idle"
    /\ call = ""
    /\ response = NoReply
    /\ works = NotCalled
    /\ total = NotCalled
    /\ requests = 0
    /\ failures = 0
    /\ page = 0
    /\ result = NotCalled

\* no click is being handled and the table is empty
DbIdle ==
    /\ store = {}
    /\ seq = 0
    /\ handlers = <<>>

MaxUpdates == 3

UpdateIds == 1..MaxUpdates

\* polling has not started
PollIdle ==
    /\ ppc = "idle"
    /\ offset = 0
    /\ batch = <<>>
    /\ received = <<>>
    /\ polled = "none"
    /\ outcome = [u \in UpdateIds |-> "none"]
    /\ dispatched = [u \in UpdateIds |-> 0]
    /\ arrived = 0
    /\ confirmed = 0

NoOrigin == [listing |-> "", keyword |-> "", page |-> 0, dir |-> ""]

NoUpdate == [kind |-> "none", data |-> "", origin |-> NoOrigin]

NotAsked == [listing |-> "", keyword |-> "", page |-> 0, page_size |-> 0]

NothingShown ==
    [kind |-> "none", listing |-> "", keyword |-> "", page |-> 0, total_pages |-> 0,
     prev |-> "", next |-> ""]

\* no update is being handled
ViewIdle ==
    /\ vpc = "idle"
    /\ upd = NoUpdate
    /\ asked = NotAsked
    /\ shown = NothingShown
    /\ unhandled = ""
    /\ catalog = 0
    /\ rpp = 0

OutsideParserIdle == ApiIdle /\ DbIdle /\ PollIdle /\ ViewIdle

(***************************************************************************)
(* The call chain: parse_parameters(text), then get_quick_summary and      *)
(* explain_parameters on the dict it returned.                             *)
(***************************************************************************)
Init ==
    /\ \/ \E ps \in PairLists :
            /\ input = [kind |-> "pairs", parts |-> ps]
            /\ text = Join(TextsOf(ps), ", ")
       \/ \E ps \in PieceLists :
            /\ input = [kind |-> "pieces", parts |-> ps]
            /\ text = Join(TextsOf(ps), "")
       \/ \E ns \in NodeLists :
            /\ input = [kind |-> "workflow", parts |-> ns]
            /\ text = JsonDumps(Workflow(ns))
    /\ pc = "start"
    /\ params = <<>>
    /\ loras = <<>>
    /\ todo = <<>>
    /\ ranWorkflow = FALSE
    /\ caught = FALSE
    /\ raised = {}
    /\ summary = ""
    /\ explained = ""
    /\ OutsideParserIdle

\* parse_parameters, lines 147-148
EmptyText ==
    /\ pc = "start"
    /\ text = ""
    /\ pc' = "returned"
    /\ UNCHANGED <<input, text, params, loras, todo, ranWorkflow, caught, raised, summary, explained>>
    /\ UNCHANGED outsideParser

\* parse_parameters, lines 150-160
InlineKeys ==
    /\ pc = "start"
    /\ text # ""
    /\ params' = InlineScan(text)
    /\ pc' = "lora"
    /\ UNCHANGED <<input, text, loras, todo, ranWorkflow, caught, raised, summary, explained>>
    /\ UNCHANGED outsideParser

\* parse_parameters, lines 163-165
LoraTags ==
    /\ pc = "lora"
    /\ params' = LoraScan(params, text)
    /\ pc' = "method2"
    /\ UNCHANGED <<input, text, loras, todo, ranWorkflow, caught, raised, summary, explained>>
    /\ UNCHANGED outsideParser

\* variant of NeedsMethod2: Method 2 is tried whatever Method 1 stored
Method2Always(d) == TRUE

\* line 168, `if not params`: Method 2 is tried
NeedsMethod2(d) == d = <<>>

\* parse_parameters, lines 168 and 171: params is not empty
ReturnInline ==
    /\ pc = "method2"
    /\ ~NeedsMethod2(params)
    /\ pc' = "returned"
    /\ UNCHANGED <<input, text, params, loras, todo, ranWorkflow, caught, raised, summary, explained>>
    /\ UNCHANGED outsideParser

\* what an exception of the try block of parse_comfyui_workflow leads to:
\* the except clause and `return params`, or the exception leaving
\* parse_comfyui_workflow and parse_parameters
AfterException(kind) ==
    IF Catches(kind)
    THEN /\ caught' = TRUE
         /\ pc' = "returned"
         /\ UNCHANGED raised
    ELSE /\ raised' = raised \cup {"parse_parameters"}
         /\ pc' = "failed"
         /\ UNCHANGED caught

\* parse_parameters line 169, parse_comfyui_workflow lines 74-81: no {...}
WorkflowNoJson ==
    /\ pc = "method2"
    /\ NeedsMethod2(params)
    /\ ~JsonMatch(text).ok
    /\ ranWorkflow' = TRUE
    /\ params' = <<>>
    /\ pc' = "returned"
    /\ UNCHANGED <<input, text, loras, todo, caught, raised, summary, explained>>
    /\ UNCHANGED outsideParser

\* lines 79-83: json.loads raises
WorkflowBadJson ==
    /\ pc = "method2"
    /\ NeedsMethod2(params)
    /\ JsonMatch(text).ok
    /\ ~JsonLoads(JsonMatch(text).group).ok
    /\ ranWorkflow' = TRUE
    /\ params' = <<>>
    /\ AfterException("JSONDecodeError")
    /\ UNCHANGED <<input, text, loras, todo, summary, explained>>
    /\ UNCHANGED outsideParser

\* lines 79-88: json.loads returns the workflow
WorkflowLoaded ==
    /\ pc = "method2"
    /\ NeedsMethod2(params)
    /\ JsonMatch(text).ok
    /\ JsonLoads(JsonMatch(text).group).ok
    /\ ranWorkflow' = TRUE
    /\ params' = <<>>
    /\ todo' = JsonLoads(JsonMatch(text).group).v.kids
    /\ pc' = "nodes"
    /\ UNCHANGED <<input, text, loras, caught, raised, summary, explained>>
    /\ UNCHANGED outsideParser

\* lines 88-131: one iteration of the node loop
VisitNextNode ==
    /\ pc = "nodes"
    /\ todo # <<>>
    /\ LET st == VisitNode([params |-> params, loras |-> loras, err |-> ""], todo[1].v)
       IN  /\ params' = st.params
           /\ loras' = st.loras
           /\ IF st.err = ""
              THEN /\ todo' = Tail(todo)
                   /\ UNCHANGED <<pc, caught, raised>>
              ELSE /\ AfterException(st.err)
                   /\ UNCHANGED todo
    /\ UNCHANGED <<input, text, ranWorkflow, summary, explained>>
    /\ UNCHANGED outsideParser

\* lines 133-142: after the loop
LoopDone ==
    /\ pc = "nodes"
    /\ todo = <<>>
    /\ params' = FinishWorkflow(params, loras)
    /\ pc' = "returned"
    /\ UNCHANGED <<input, text, loras, todo, ranWorkflow, caught, raised, summary, explained>>
    /\ UNCHANGED outsideParser

\* get_quick_summary(params)
GetQuickSummary ==
    /\ pc = "returned"
    /\ summary' = QuickSummary(params).out
    /\ raised' = IF QuickSummary(params).ok THEN raised ELSE raised \cup {"get_quick_summary"}
    /\ pc' = "summarized"
    /\ UNCHANGED <<input, text, params, loras, todo, ranWorkflow, caught, explained>>
    /\ UNCHANGED outsideParser

\* explain_parameters(params)
ExplainParameters ==
    /\ pc = "summarized"
    /\ explained' = Explain(params)
    /\ pc' = "done"
    /\ UNCHANGED <<input, text, params, loras, todo, ranWorkflow, caught, raised, summary>>
    /\ UNCHANGED outsideParser

Next ==
    \/ EmptyText
    \/ InlineKeys
    \/ LoraTags
    \/ ReturnInline
    \/ WorkflowNoJson
    \/ WorkflowBadJson
    \/ WorkflowLoaded
    \/ VisitNextNode
    \/ LoopDone
    \/ GetQuickSummary
    \/ ExplainParameters

Spec == Init /\ [][Next]_vars

(***************************************************************************)
(* get_quick_summary and explain_parameters called on a given dict: the    *)
(* dicts of string values over the keys the two functions look at, a key   *)
(* in upper case and a key PARAM_EXPLANATIONS does not have.               *)
(***************************************************************************)
\* no entry, or the entry of key k with one of the values
Options(k, values) == {<<>>} \cup {<<[k |-> k, v |-> PyStr(x)]>> : x \in values}

Reverse(d) == [i \in 1..Len(d) |-> d[Len(d) + 1 - i]]

GivenMaps ==
    LET forward ==
            { m \o c \o st \o cf \o sa \o w \o up \o un :
                m  \in Options("model", {"", "base , v2", "abcdefghijklmnopqrst",
                                         "abcdefghijklmnopqrstu"}),
                c  \in Options("checkpoint", {"ck_v1"}),
                st \in Options("steps", {"20"}),
                cf \in Options("cfg scale", {"7"}),
                sa \in Options("sampler", {"Euler a", " "}),
                w  \in Options("workflow", {"ComfyUI"}),
                up \in Options("Seed", {"5"}),
                un \in Options("foo", {"bar"}) }
    IN  forward \cup {Reverse(d) : d \in forward}

InitMaps ==
    /\ input = [kind |-> "map", parts |-> <<>>]
    /\ text = ""
    /\ pc = "returned"
    /\ params \in GivenMaps
    /\ loras = <<>>
    /\ todo = <<>>
    /\ ranWorkflow = FALSE
    /\ caught = FALSE
    /\ raised = {}
    /\ summary = ""
    /\ explained = ""
    /\ OutsideParserIdle

NextMaps ==
    \/ GetQuickSummary
    \/ ExplainParameters

SpecMaps == InitMaps /\ [][NextMaps]_vars

(***************************************************************************)
(* The catalog client: extract_works and get_total_count.  A result is     *)
(* [err, v]: err names a raised exception ("" when the call returned) and  *)
(* v is the value returned.                                                *)
(***************************************************************************)
Ret(v) == [err |-> "", v |-> v]

Exc(kind) == [err |-> kind, v |-> PyNone]

\* r[k], k a str: the value of a dict; a str or a list raises TypeError
Subscript(r, k) == IF IsDict(r) THEN Ret(Get(r.kids, k)) ELSE Exc("TypeError")

\* len(v)
PyLen(v) ==
    CASE v.t = "str" -> Ret(PyInt(Len(v.s)))
      [] v.t \in {"list", "dict"} -> Ret(PyInt(Len(v.kids)))
      [] OTHER -> Exc("TypeError")

\* lines 304-312: the chain of `elif key in api_response` from the i-th key on
RECURSIVE ContainerFrom(_, _, _)
ContainerFrom(r, keys, i) ==
    IF i > Len(keys)
    THEN IF IsDict(r) THEN Ret(PyList(<<>>)) ELSE Exc("AttributeError")
    ELSE IF PyIn(keys[i], r) = "E" THEN Exc("TypeError")
    ELSE IF PyIn(keys[i], r) = "T" THEN Subscript(r, keys[i])
    ELSE ContainerFrom(r, keys, i + 1)

\* extract_works without the branch of lines 308-309
ExtractWorksTwoKeys(r) ==
    IF ~Truthy(r) THEN Ret(PyList(<<>>))
    ELSE IF r.t = "list" THEN Ret(r)
    ELSE ContainerFrom(r, <<"data", "works">>, 1)

\* extract_works(api_response)
ExtractWorks(r) ==
    IF ~Truthy(r) THEN Ret(PyList(<<>>))
    ELSE IF r.t = "list" THEN Ret(r)
    ELSE ContainerFrom(r, <<"data", "works", "items">>, 1)

\* lines 328-334: the loop over the count keys from the i-th on, then the
\* length of the works
RECURSIVE CountFrom(_, _, _)
CountFrom(r, keys, i) ==
    IF i > Len(keys)
    THEN IF ExtractWorks(r).err # "" THEN ExtractWorks(r) ELSE PyLen(ExtractWorks(r).v)
    ELSE IF PyIn(keys[i], r) = "E" THEN Exc("TypeError")
    ELSE IF PyIn(keys[i], r) = "T" THEN Subscript(r, keys[i])
    ELSE CountFrom(r, keys, i + 1)

\* get_total_count(api_response)
GetTotalCount(r) ==
    IF ~Truthy(r) THEN Ret(PyInt(0))
    ELSE CountFrom(r, <<"total", "total_count", "count">>, 1)

(***************************************************************************)
(* The JSON values the catalog answers with.                               *)
(***************************************************************************)
MaxItems == 2

Work(id) == PyDict(<<[k |-> "id", v |-> PyInt(id)], [k |-> "title", v |-> PyStr("w")]>>)

ItemLists == {PyList(q) : q \in SeqsUpTo({Work(1), Work(2)}, MaxItems)}

Obj1(k, v) == PyDict(<<[k |-> k, v |-> v]>>)

Obj2(k1, v1, k2, v2) == PyDict(<<[k |-> k1, v |-> v1], [k |-> k2, v |-> v2]>>)

\* an item list in each of the shapes, alone and next to a count
ListResponses ==
    UNION { { L, Obj1("data", L), Obj1("works", L), Obj1("items", L), Obj1("list", L),
              Obj2("total", PyInt(25), "data", L), Obj2("works", L, "total_count", PyInt(0)),
              Obj2("data", L, "items", PyList(<<>>)) }
            : L \in ItemLists }

\* the other answers: no container, no count, a count above the page cap,
\* and values of other types under the container and count keys
OtherResponses ==
    { PyDict(<<>>), PyNone, PyInt(5), PyStr("data"), PyStr("ok"),
      Obj1("msg", PyStr("none")), Obj1("total", PyInt(7)), Obj1("total", PyInt(-1)),
      Obj1("total", PyNone), Obj1("count", PyStr("12")), Obj1("total", PyFloat("7.5")),
      Obj2("total_count", PyInt(3), "count", PyInt(9)),
      Obj2("items", PyList(<<Work(1)>>), "count", PyInt(2001)),
      Obj1("data", PyNone), Obj1("works", PyStr("abc")), Obj1("items", Obj1("a", PyInt(1))),
      Obj2("total", PyNone, "data", PyList(<<Work(1)>>)) }

Responses == ListResponses \cup OtherResponses

\* a reply with status 200 and the JSON body b
Reply200(b) == [kind |-> "ok", body |-> b]

\* the replies without a body: a status other than 200, httpx.TimeoutException,
\* httpx.RequestError, and a status 200 whose body is not JSON
BadReplies == {[kind |-> k, body |-> PyNone] : k \in {"status", "timeout", "error", "badjson"}}

\* an HTTP failure: a status other than 200, a timeout, a transport error
IsHttpFailure(reply) == reply.kind \in {"status", "timeout", "error"}

Replies == {Reply200(b) : b \in Responses} \cup BadReplies

\* the parser and explainer are not running
ParserIdle ==
    /\ input = [kind |-> "none", parts |-> <<>>]
    /\ text = ""
    /\ pc = "idle"
    /\ params = <<>>
    /\ loras = <<>>
    /\ todo = <<>>
    /\ ranWorkflow = FALSE
    /\ caught = FALSE
    /\ raised = {}
    /\ summary = ""
    /\ explained = ""

\* the bot normalises the data of a reply: telegram_bot.py lines 248-249
NormalizeGiven ==
    /\ call = "normalize"
    /\ apc = "given"
    /\ response \in {Reply200(b) : b \in Responses}
    /\ works = NotCalled
    /\ total = NotCalled
    /\ requests = 0
    /\ failures = 0
    /\ page = 0
    /\ result = NotCalled

\* works = extract_works(results)
NormalizeExtract ==
    /\ apc = "given"
    /\ works' = ExtractWorks(response.body)
    /\ apc' = "extracted"
    /\ UNCHANGED <<call, response, total, requests, failures, page, result>>
    /\ UNCHANGED outsideClient

\* total_count = get_total_count(results)
NormalizeCount ==
    /\ apc = "extracted"
    /\ total' = GetTotalCount(response.body)
    /\ apc' = "counted"
    /\ UNCHANGED <<call, response, works, requests, failures, page, result>>
    /\ UNCHANGED outsideClient

(***************************************************************************)
(* The calls of the client.  Failure is the value None.                    *)
(***************************************************************************)
Failure == Ret(PyNone)

PageSize == 10

PageCap == 200

Attempts == 3

Methods == {"search_works", "get_monthly_ranking", "get_work_detail", "get_random_work"}

\* a method of the client is called
CallGiven ==
    /\ call \in Methods
    /\ apc = "called"
    /\ response = NoReply
    /\ works = NotCalled
    /\ total = NotCalled
    /\ requests = 0
    /\ failures = 0
    /\ page = 0
    /\ result = NotCalled

\* lines 76-94 and 138-149: what search_works and get_monthly_ranking
\* return on a reply; len(works) is evaluated for the log line
ListingResult(reply) ==
    IF reply.kind # "ok" THEN Failure
    ELSE IF ExtractWorks(reply.body).err # "" THEN Failure
    ELSE IF PyLen(ExtractWorks(reply.body).v).err # "" THEN Failure
    ELSE Ret(reply.body)

\* search_works, lines 59-94
SearchWorks ==
    /\ call = "search_works"
    /\ apc = "called"
    /\ \E reply \in Replies :
          /\ response' = reply
          /\ failures' = IF IsHttpFailure(reply) THEN failures + 1 ELSE failures
          /\ result' = ListingResult(reply)
    /\ requests' = requests + 1
    /\ apc' = "returned"
    /\ UNCHANGED <<call, works, total, page>>
    /\ UNCHANGED outsideClient

\* get_monthly_ranking, lines 122-149
GetMonthlyRanking ==
    /\ call = "get_monthly_ranking"
    /\ apc = "called"
    /\ \E reply \in Replies :
          /\ response' = reply
          /\ failures' = IF IsHttpFailure(reply) THEN failures + 1 ELSE failures
          /\ result' = ListingResult(reply)
    /\ requests' = requests + 1
    /\ apc' = "returned"
    /\ UNCHANGED <<call, works, total, page>>
    /\ UNCHANGED outsideClient

\* get_work_detail, lines 214-234
GetWorkDetail ==
    /\ call = "get_work_detail"
    /\ apc = "called"
    /\ \E reply \in Replies :
          /\ response' = reply
          /\ failures' = IF IsHttpFailure(reply) THEN failures + 1 ELSE failures
          /\ result' = IF reply.kind = "ok" THEN Ret(reply.body) ELSE Failure
    /\ requests' = requests + 1
    /\ apc' = "returned"
    /\ UNCHANGED <<call, works, total, page>>
    /\ UNCHANGED outsideClient

\* `total_items < 0` in the place of line 175
NoItemsBelowZero(t) ==
    IF t.t = "int" THEN (IF t.n < 0 THEN "T" ELSE "F")
    ELSE IF t.t = "bool" THEN "F"
    ELSE "E"

\* line 175, `total_items <= 0`, on what get_total_count returned: "T", "F",
\* or "E" when the comparison raises TypeError
NoItems(t) ==
    IF t.t = "int" THEN (IF t.n <= 0 THEN "T" ELSE "F")
    ELSE IF t.t = "bool" THEN (IF t.n = 0 THEN "T" ELSE "F")
    ELSE "E"

\* max_pages without the cap of line 181
MaxPagesUncapped(n) == (n + PageSize - 1) \div PageSize

\* lines 179-181: max_pages for a total
MaxPages(n) ==
    LET total_pages == (n + PageSize - 1) \div PageSize
    IN  IF total_pages < PageCap THEN total_pages ELSE PageCap

\* the bodies of the reply to the count request: a total is an integer, a
\* string or null
CountReplies == {Reply200(b) : b \in Responses \ {Obj1("total", PyFloat("7.5"))}} \cup BadReplies

\* get_random_work, step 1 (lines 161-176): the count request and its reply
RandomCount ==
    /\ call = "get_random_work"
    /\ apc = "called"
    /\ \E reply \in CountReplies :
          /\ response' = reply
          /\ failures' = IF IsHttpFailure(reply) THEN failures + 1 ELSE failures
          /\ total' = IF reply.kind = "ok" THEN GetTotalCount(reply.body) ELSE total
          /\ IF /\ reply.kind = "ok"
                /\ GetTotalCount(reply.body).err = ""
                /\ NoItems(GetTotalCount(reply.body).v) = "F"
             THEN apc' = "attempts" /\ UNCHANGED result
             ELSE apc' = "returned" /\ result' = Failure
    /\ requests' = requests + 1
    /\ UNCHANGED <<call, works, page>>
    /\ UNCHANGED outsideClient

\* lines 183-189: random.randint picks a page and the request for it goes out
RandomPick ==
    /\ apc = "attempts"
    /\ \E p \in 1..MaxPages(total.v.n) : page' = p
    /\ requests' = requests + 1
    /\ response' = NoReply
    /\ apc' = "fetch"
    /\ UNCHANGED <<call, works, total, failures, result>>
    /\ UNCHANGED outsideClient

\* the replies to a page request
PageReplies ==
    { Reply200(b) : b \in { PyList(<<>>), PyList(<<Work(1)>>), Obj1("data", PyList(<<>>)),
                            Obj1("works", PyList(<<Work(1), Work(2)>>)), Obj1("data", PyNone),
                            Obj1("works", PyStr("ab")), Obj1("items", Obj1("a", PyInt(1))),
                            PyInt(5), Obj1("msg", PyStr("none")) } }
    \cup BadReplies

\* random.choice(seq): the elements of a list, the characters of a str; a
\* dict without the key random.choice picks raises KeyError
Choices(v) ==
    IF v.t = "list" THEN {v.kids[i] : i \in 1..Len(v.kids)}
    ELSE IF v.t = "str" THEN {PyStr(Ch(v.s, i)) : i \in 1..Len(v.s)}
    ELSE {}

\* the attempt is over without a work: the next one, or line 195 after the last
NextAttempt ==
    IF requests < 1 + Attempts
    THEN apc' = "attempts" /\ UNCHANGED result
    ELSE apc' = "returned" /\ result' = Failure

\* lines 189-198: the reply to the page request
RandomReply ==
    /\ apc = "fetch"
    /\ \E reply \in PageReplies :
          /\ response' = reply
          /\ failures' = IF IsHttpFailure(reply) THEN failures + 1 ELSE failures
          /\ works' = IF reply.kind = "ok" THEN ExtractWorks(reply.body) ELSE works
          /\ IF reply.kind \in {"timeout", "error", "badjson"}
             THEN apc' = "returned" /\ result' = Failure
             ELSE IF reply.kind = "status" THEN NextAttempt
             ELSE IF ExtractWorks(reply.body).err # ""
             THEN apc' = "returned" /\ result' = Failure
             ELSE IF ~Truthy(ExtractWorks(reply.body).v) THEN NextAttempt
             ELSE IF Choices(ExtractWorks(reply.body).v) = {}
             THEN apc' = "returned" /\ result' = Failure
             ELSE /\ apc' = "returned"
                  /\ \E w \in Choices(ExtractWorks(reply.body).v) : result' = Ret(w)
    /\ UNCHANGED <<call, total, requests, page>>
    /\ UNCHANGED outsideClient

InitClient ==
    /\ ParserIdle
    /\ DbIdle
    /\ PollIdle
    /\ ViewIdle
    /\ NormalizeGiven \/ CallGiven

NextClient ==
    \/ NormalizeExtract
    \/ NormalizeCount
    \/ SearchWorks
    \/ GetMonthlyRanking
    \/ GetWorkDetail
    \/ RandomCount
    \/ RandomPick
    \/ RandomReply

SpecClient == InitClient /\ [][NextClient]_vars

(***************************************************************************)
(* The subscription store.  A row has the columns id, user_id, sub_type,   *)
(* sub_target and sub_name; the columns no handler writes                  *)
(* (last_check_time, last_work_id, created_at) are left out.  Every method *)
(* of SubscriptionDB is one SQL statement in a connection of its own, with *)
(* no await inside.                                                        *)
(***************************************************************************)
SubRow(id, user_id, sub_type, sub_target, sub_name) ==
    [id |-> id, user_id |-> user_id, sub_type |-> sub_type,
     sub_target |-> sub_target, sub_name |-> sub_name]

\* the rows a WHERE user_id = ? AND sub_type = ? AND sub_target = ? selects
Matching(rows, user_id, sub_type, sub_target) ==
    {r \in rows : r.user_id = user_id /\ r.sub_type = sub_type /\ r.sub_target = sub_target}

\* a table without the UNIQUE constraint of line 40
NoUniqueConstraint(rows, user_id, sub_type, sub_target) == FALSE

\* UNIQUE(user_id, sub_type, sub_target): the INSERT raises IntegrityError
UniqueConflict(rows, user_id, sub_type, sub_target) ==
    Matching(rows, user_id, sub_type, sub_target) # {}

\* INSERT OR REPLACE in the place of the INSERT of line 69
AddOrReplaceSubscription(rows, n, user_id, sub_type, sub_target, sub_name) ==
    [ret |-> TRUE,
     rows |-> (rows \ Matching(rows, user_id, sub_type, sub_target))
              \cup {SubRow(n + 1, user_id, sub_type, sub_target, sub_name)},
     seq |-> n + 1]

\* add_subscription on the table `rows` whose last id is n: what it returns
\* and the table after it
AddSubscription(rows, n, user_id, sub_type, sub_target, sub_name) ==
    IF UniqueConflict(rows, user_id, sub_type, sub_target)
    THEN [ret |-> FALSE, rows |-> rows, seq |-> n]
    ELSE [ret |-> TRUE,
          rows |-> rows \cup {SubRow(n + 1, user_id, sub_type, sub_target, sub_name)},
          seq |-> n + 1]

\* remove_subscription: rowcount > 0, and the table after the DELETE
RemoveSubscription(rows, user_id, sub_type, sub_target) ==
    [ret |-> Matching(rows, user_id, sub_type, sub_target) # {},
     rows |-> rows \ Matching(rows, user_id, sub_type, sub_target)]

(***************************************************************************)
(* The clicks on the subscription button of a detail message.  The button  *)
(* texts and notices are written in ASCII.                                 *)
(***************************************************************************)
MaxClicks == 2

Procs == 1..MaxClicks

Users == {1, 2}

SubscribeLabel == "[bell] subscribe "

SubscribedLabel == "[ok] subscribed "

UnknownAuthor == "unknown author"

SubscribedNotice(author_name) ==
    "[ok] subscribed " \o author_name \o "! you will be told of new works"

AlreadyNotice(author_name) == "you already subscribe to " \o author_name

UnsubscribedNotice == "unsubscribed"

UnsubscribeFailed == "unsubscribe failed"

\* the subscription button as _send_work_detail builds it (lines 676-679)
SubscribeButton(author_id, author_name) ==
    [text |-> SubscribeLabel \o author_name,
     data |-> "sub_author:" \o author_id \o ":" \o author_name]

SubscribedButton(author_id, author_name) ==
    [text |-> SubscribedLabel \o author_name, data |-> "unsub_author:" \o author_id]

\* the buttons clicked: of two authors, one with a colon in the name, of an
\* author whose name has changed since the subscription, and a subscribe
\* button whose payload carries no name
Buttons ==
    { SubscribeButton("a7", "Ann"), SubscribeButton("a7", "Anna"),
      SubscribeButton("b9", "Bo:b"),
      [text |-> SubscribeLabel \o "Ann", data |-> "sub_author:a7"],
      SubscribedButton("a7", "Ann") }

\* an update with a click of the user on the button
Click(user, button) ==
    [user |-> user, data |-> button.data, button |-> button, pc |-> "received",
     answers |-> <<>>, author_id |-> "", author_name |-> "", success |-> FALSE]

Clicks == {Click(u, b) : u \in Users, b \in Buttons}

\* the tables the clicks find: an empty one, and one in which both users
\* subscribe to a7 (rows 11 and 12 of a table that has had rows before)
InitialIds == {11, 12}

GivenStores ==
    { [rows |-> {}, seq |-> 0],
      [rows |-> {SubRow(11, 1, "author", "a7", "Ann"), SubRow(12, 2, "author", "a7", "Ann")},
       seq |-> 12] }

\* data.split(":", 2) of a sub_author payload (lines 543-546)
SubAuthorParts(data) ==
    LET rest == SubSeq(data, Len("sub_author:") + 1, Len(data))
        c == FindFrom(rest, ":", 1)
    IN  IF c = 0 THEN [author_id |-> rest, author_name |-> UnknownAuthor]
        ELSE [author_id |-> SubSeq(rest, 1, c - 1),
              author_name |-> SubSeq(rest, c + 1, Len(rest))]

\* data.split(":", 1) of an unsub_author payload (lines 550-552)
UnsubAuthorId(data) == SubSeq(data, Len("unsub_author:") + 1, Len(data))

IsSubClick(h) == StartsWithAt(h.data, 1, "sub_author:")

IsUnsubClick(h) == StartsWithAt(h.data, 1, "unsub_author:")

Answer(msg, show_alert) == [text |-> msg, show_alert |-> show_alert]

\* button_callback, lines 484-485: the click is answered with an empty answer
AnswerClick(p) ==
    /\ handlers[p].pc = "received"
    /\ handlers' = [handlers EXCEPT ![p].pc = "dispatch",
                                    ![p].answers = Append(@, Answer("", FALSE))]
    /\ UNCHANGED <<store, seq>>
    /\ UNCHANGED outsideDb

\* lines 541-547 and 801-815, 840: add_subscription and the answer
Subscribe(p) ==
    LET h == handlers[p]
        parts == SubAuthorParts(h.data)
        added == AddSubscription(store, seq, h.user, "author", parts.author_id, parts.author_name)
    IN  /\ h.pc = "dispatch"
        /\ IsSubClick(h)
        /\ store' = added.rows
        /\ seq' = added.seq
        /\ handlers' = [handlers EXCEPT
              ![p].author_id = parts.author_id,
              ![p].author_name = parts.author_name,
              ![p].success = added.ret,
              ![p].answers = Append(@, IF added.ret
                                       THEN Answer(SubscribedNotice(parts.author_name), FALSE)
                                       ELSE Answer(AlreadyNotice(parts.author_name), TRUE)),
              ![p].pc = IF added.ret THEN "edit" ELSE "done"]
        /\ UNCHANGED outsideDb

\* lines 549-553 and 842-855, 880: remove_subscription and the answer
Unsubscribe(p) ==
    LET h == handlers[p]
        removed == RemoveSubscription(store, h.user, "author", UnsubAuthorId(h.data))
    IN  /\ h.pc = "dispatch"
        /\ IsUnsubClick(h)
        /\ store' = removed.rows
        /\ handlers' = [handlers EXCEPT
              ![p].author_id = UnsubAuthorId(h.data),
              ![p].success = removed.ret,
              ![p].answers = Append(@, IF removed.ret
                                       THEN Answer(UnsubscribedNotice, FALSE)
                                       ELSE Answer(UnsubscribeFailed, TRUE)),
              ![p].pc = IF removed.ret THEN "edit" ELSE "done"]
        /\ UNCHANGED seq
        /\ UNCHANGED outsideDb

\* lines 817-836 and 857-876: the button of the message after the edit
EditedButton(h) ==
    IF IsSubClick(h)
    THEN IF StartsWithAt(h.button.data, 1, "sub_author:")
         THEN SubscribedButton(h.author_id, h.author_name)
         ELSE h.button
    ELSE IF StartsWithAt(h.button.data, 1, "unsub_author:")
         THEN SubscribeButton(h.author_id, Remove(h.button.text, SubscribedLabel))
         ELSE h.button

\* the keyboard of the message is edited; a failed edit is logged (lines
\* 837-838, 877-878) and leaves the button as it was
EditMarkup(p) ==
    /\ handlers[p].pc = "edit"
    /\ \/ handlers' = [handlers EXCEPT ![p].pc = "done", ![p].button = EditedButton(handlers[p])]
       \/ handlers' = [handlers EXCEPT ![p].pc = "done"]
    /\ UNCHANGED <<store, seq>>
    /\ UNCHANGED outsideDb

InitDb ==
    /\ ParserIdle
    /\ ApiIdle
    /\ PollIdle
    /\ ViewIdle
    /\ \E g \in GivenStores : store = g.rows /\ seq = g.seq
    /\ handlers \in [Procs -> Clicks]

NextDb ==
    \E p \in Procs :
        \/ AnswerClick(p)
        \/ Subscribe(p)
        \/ Unsubscribe(p)
        \/ EditMarkup(p)

SpecDb == InitDb /\ [][NextDb]_vars

(***************************************************************************)
(* The polling loop, _manual_polling.  Telegram holds the updates          *)
(* 1..arrived and answers a getUpdates request with the ones from the      *)
(* offset on, in increasing order of update_id; every update is well       *)
(* formed.  Handling an update is process_update, which ends normally or   *)
(* raises an Exception.                                                    *)
(***************************************************************************)
\* how a getUpdates request can fail: a status other than 200, a body with
\* ok = false, httpx.TimeoutException, httpx.RequestError, a body that is
\* not JSON
FailureKinds == {"status", "notok", "timeout", "error", "malformed"}

\* a loop in which a transport error is not caught
AfterFailureErrorEscapes(kind) ==
    CASE kind = "timeout" -> "poll"
      [] kind = "error" -> "ended"
      [] OTHER -> "sleep"

\* where the loop goes after a failed request: lines 937-939, 943-946 and
\* 963-968 sleep 5 seconds first, lines 959-962 continue at once
AfterFailure(kind) == IF kind = "timeout" THEN "poll" ELSE "sleep"

\* the ids from a to b, in increasing order
RECURSIVE IdsFrom(_, _)
IdsFrom(a, b) == IF a > b THEN <<>> ELSE <<a>> \o IdsFrom(a + 1, b)

Max(a, b) == IF a >= b THEN a ELSE b

\* the updates Telegram holds for a request with the offset off
Pending(off) == IdsFrom(Max(Max(off, confirmed), 1), arrived)

\* an update reaches Telegram
Arrive ==
    /\ ppc # "idle"
    /\ arrived < MaxUpdates
    /\ arrived' = arrived + 1
    /\ UNCHANGED <<ppc, offset, batch, received, polled, outcome, dispatched, confirmed>>
    /\ UNCHANGED outsidePoll

\* lines 921-929: the getUpdates request goes out
PollRequest ==
    /\ ppc = "poll"
    /\ ppc' = "wait"
    /\ UNCHANGED <<offset, batch, received, polled, outcome, dispatched, arrived, confirmed>>
    /\ UNCHANGED outsidePoll

\* lines 933-951: a reply with status 200, ok = true and the pending
\* updates, or some first ones of them
PollBatch ==
    /\ ppc = "wait"
    /\ \E n \in 0..Len(Pending(offset)) :
          /\ (n = 0) = (Pending(offset) = <<>>)
          /\ received' = SubSeq(Pending(offset), 1, n)
          /\ batch' = SubSeq(Pending(offset), 1, n)
          /\ ppc' = IF n = 0 THEN "poll" ELSE "batch"
    /\ polled' = "ok"
    /\ confirmed' = Max(confirmed, offset)
    /\ UNCHANGED <<offset, outcome, dispatched, arrived>>
    /\ UNCHANGED outsidePoll

\* lines 935-946 and 959-968: the request fails
PollFailure ==
    /\ ppc = "wait"
    /\ \E kind \in FailureKinds :
          /\ polled' = kind
          /\ ppc' = AfterFailure(kind)
    /\ UNCHANGED <<offset, batch, received, outcome, dispatched, arrived, confirmed>>
    /\ UNCHANGED outsidePoll

\* asyncio.sleep(5) is over
Sleep ==
    /\ ppc = "sleep"
    /\ ppc' = "poll"
    /\ UNCHANGED <<offset, batch, received, polled, outcome, dispatched, arrived, confirmed>>
    /\ UNCHANGED outsidePoll

MaxDispatch == 2

\* the offset written at line 951 before update_id is handled
OffsetBehind(update_id) == update_id

\* line 951
OffsetAfter(update_id) == update_id + 1

\* lines 949-957: the next update of the batch
HandleUpdate ==
    /\ ppc = "batch"
    /\ offset' = OffsetAfter(Head(batch))
    /\ dispatched' = [dispatched EXCEPT ![Head(batch)] = IF @ < MaxDispatch THEN @ + 1 ELSE @]
    /\ \E o \in {"ok", "raised"} : outcome' = [outcome EXCEPT ![Head(batch)] = o]
    /\ batch' = Tail(batch)
    /\ ppc' = IF Tail(batch) = <<>> THEN "poll" ELSE "batch"
    /\ UNCHANGED <<received, polled, arrived, confirmed>>
    /\ UNCHANGED outsidePoll

\* run() has initialized the application and dropped the pending updates
\* (lines 984-999)
InitPoll ==
    /\ ParserIdle
    /\ ApiIdle
    /\ DbIdle
    /\ ViewIdle
    /\ ppc = "poll"
    /\ offset = 0
    /\ batch = <<>>
    /\ received = <<>>
    /\ polled = "none"
    /\ outcome = [u \in UpdateIds |-> "none"]
    /\ dispatched = [u \in UpdateIds |-> 0]
    /\ arrived = 0
    /\ confirmed = 0

LoopStep == PollRequest \/ PollBatch \/ PollFailure \/ Sleep \/ HandleUpdate

NextPoll == Arrive \/ LoopStep

SpecPoll == InitPoll /\ [][NextPoll]_vars

\* the event loop keeps running the polling task, and every request ends,
\* with a reply or with the timeout of the client
SpecPollFair == SpecPoll /\ WF_vars(LoopStep)

(***************************************************************************)
(* Searching and paging.  An update is a text message, the command /hot,   *)
(* or a click on a button; a click answered at line 485 is dispatched on   *)
(* its payload.  The catalog holds `catalog` works for the listing and     *)
(* answers a request for page p of size s with the works (p-1)*s+1..p*s it *)
(* holds and with the total.                                               *)
(***************************************************************************)
\* s.split(":", maxsplit)
RECURSIVE SplitColon(_, _)
SplitColon(s, maxsplit) ==
    LET c == FindFrom(s, ":", 1)
    IN  IF maxsplit = 0 \/ c = 0 THEN <<s>>
        ELSE <<SubSeq(s, 1, c - 1)>> \o SplitColon(SubSeq(s, c + 1, Len(s)), maxsplit - 1)

\* int(s): white space around, a sign, decimal digits; else ValueError
PyIntOf(s) ==
    LET t == Strip(s)
        neg == Ch(t, 1) = "-"
        ds == IF Ch(t, 1) \in {"-", "+"} THEN Tail(t) ELSE t
    IN  IF ds # "" /\ \A i \in 1..Len(ds) : IsDigit(Ch(ds, i))
        THEN [ok |-> TRUE, n |-> IF neg THEN 0 - ToInt(ds, 0) ELSE ToInt(ds, 0)]
        ELSE [ok |-> FALSE, n |-> 0]

\* the size of the pages the keyboards count with
PageSizeOfConfig(n) == n

\* the least page size asked of the catalog
PageFloor == 60

\* lines 237 and 301: max(60, results_per_page)
PageSizeAsked(n) == IF n > PageFloor THEN n ELSE PageFloor

\* lines 413 and 452: total_pages
TotalPages(total_count, n) == (total_count + n - 1) \div n

\* the payloads of the page buttons, lines 432, 437, 471 and 476
NavPayload(listing, keyword, n) ==
    IF listing = "rank" THEN "rank:" \o IntStr(n)
    ELSE "search:" \o keyword \o ":" \o IntStr(n)

\* the reply of the catalog to a request for a page
CatalogPage(n, p, size) ==
    LET lo == (p - 1) * size + 1
        hi == IF p * size < n THEN p * size ELSE n
    IN  Obj2("total", PyInt(n), "data",
             PyList(IF p >= 1 /\ lo <= hi THEN [i \in 1..(hi - lo + 1) |-> Work(lo + i - 1)] ELSE <<>>))

Keywords == {"cat", "a:b"}

CatalogSizes == {0, 6, 61, 130}

ConfiguredSizes == {5, 60, 70}

\* the updates a user sends first: a keyword as text, /hot, a click on a
\* tag button of a detail message, a click on the page indicator
FirstUpdates ==
    {[kind |-> "text", data |-> " " \o k, origin |-> NoOrigin] : k \in Keywords}
    \cup {[kind |-> "command", data |-> "/hot", origin |-> NoOrigin]}
    \cup {[kind |-> "click", data |-> "tag:" \o k, origin |-> NoOrigin] : k \in Keywords}
    \cup {[kind |-> "click", data |-> "noop", origin |-> NoOrigin]}

\* lines 229-238 and 294-302: the catalog is asked
Ask(listing, keyword, p) ==
    /\ asked' = [listing |-> listing, keyword |-> keyword, page |-> p,
                 page_size |-> PageSizeAsked(rpp)]
    /\ vpc' = "asked"

\* text_message, then _perform_search up to the request (lines 146-150,
\* 229-238): the status message is sent as a reply to the message
TextMessage ==
    /\ vpc = "received"
    /\ upd.kind = "text"
    /\ IF Strip(upd.data) = ""
       THEN vpc' = "done" /\ UNCHANGED <<asked, shown>>
       ELSE /\ Ask("search", Strip(upd.data), 1)
            /\ shown' = [NothingShown EXCEPT !.kind = "status", !.listing = "search",
                                             !.keyword = Strip(upd.data), !.page = 1]
    /\ UNCHANGED <<upd, unhandled, catalog, rpp>>
    /\ UNCHANGED outsideView

\* hot_command, then _show_ranking up to the request (lines 190-192, 294-302)
HotCommand ==
    /\ vpc = "received"
    /\ upd.kind = "command"
    /\ Ask("rank", "", 1)
    /\ shown' = [NothingShown EXCEPT !.kind = "status", !.listing = "rank", !.page = 1]
    /\ UNCHANGED <<upd, unhandled, catalog, rpp>>
    /\ UNCHANGED outsideView

\* the message of an update that carries a callback query is None
HasMessage(u) == u.kind \in {"text", "command"}

\* _perform_search with message_id = None, called for the update u (lines
\* 230-231): update.message.reply_text
SearchAfresh(u, keyword) ==
    IF HasMessage(u)
    THEN /\ Ask("search", keyword, 1)
         /\ shown' = [NothingShown EXCEPT !.kind = "status", !.listing = "search",
                                          !.keyword = keyword, !.page = 1]
         /\ UNCHANGED unhandled
    ELSE /\ unhandled' = "AttributeError"
         /\ vpc' = "raised"
         /\ UNCHANGED <<asked, shown>>

\* button_callback, lines 484-527: the click is dispatched on its payload
ButtonCallback ==
    /\ vpc = "received"
    /\ upd.kind = "click"
    /\ LET data == upd.data
       IN  IF data = "noop"
           THEN vpc' = "done" /\ UNCHANGED <<asked, shown, unhandled>>
           ELSE IF StartsWithAt(data, 1, "search:")
           THEN LET parts == SplitColon(data, 2)
                IN  IF Len(parts) # 3
                    THEN vpc' = "done" /\ UNCHANGED <<asked, shown, unhandled>>
                    ELSE IF PyIntOf(parts[3]).ok
                    THEN Ask("search", parts[2], PyIntOf(parts[3]).n) /\ UNCHANGED <<shown, unhandled>>
                    ELSE /\ shown' = [shown EXCEPT !.kind = "invalid", !.prev = "", !.next = ""]
                         /\ vpc' = "shown"
                         /\ UNCHANGED <<asked, unhandled>>
           ELSE IF StartsWithAt(data, 1, "rank:")
           THEN LET parts == SplitColon(data, Len(data))
                IN  IF Len(parts) # 2
                    THEN vpc' = "done" /\ UNCHANGED <<asked, shown, unhandled>>
                    ELSE IF PyIntOf(parts[2]).ok
                    THEN Ask("rank", "", PyIntOf(parts[2]).n) /\ UNCHANGED <<shown, unhandled>>
                    ELSE /\ shown' = [shown EXCEPT !.kind = "invalid", !.prev = "", !.next = ""]
                         /\ vpc' = "shown"
                         /\ UNCHANGED <<asked, unhandled>>
           ELSE IF StartsWithAt(data, 1, "tag:")
           THEN SearchAfresh(upd, SplitColon(data, 1)[2])
           ELSE vpc' = "done" /\ UNCHANGED <<asked, shown, unhandled>>
    /\ UNCHANGED <<upd, catalog, rpp>>
    /\ UNCHANGED outsideView

\* lines 240-279 and 304-343: the catalog has answered, or the request has
\* failed, and the message is edited
SearchReply ==
    /\ vpc = "asked"
    /\ \/ shown' = [shown EXCEPT !.kind = "failed", !.listing = asked.listing,
                                 !.keyword = asked.keyword, !.page = asked.page,
                                 !.prev = "", !.next = ""]
       \/ LET results == CatalogPage(catalog, asked.page, asked.page_size)
              total_count == GetTotalCount(results).v.n
              total_pages == TotalPages(total_count, PageSizeOfConfig(rpp))
          IN  IF ~Truthy(ExtractWorks(results).v)
              THEN shown' = [shown EXCEPT !.kind = "noresults", !.listing = asked.listing,
                                          !.keyword = asked.keyword, !.page = asked.page,
                                          !.prev = "", !.next = ""]
              ELSE shown' =
                     [kind |-> "results", listing |-> asked.listing, keyword |-> asked.keyword,
                      page |-> asked.page, total_pages |-> total_pages,
                      prev |-> IF asked.page > 1
                               THEN NavPayload(asked.listing, asked.keyword, asked.page - 1)
                               ELSE "",
                      next |-> IF asked.page < total_pages
                               THEN NavPayload(asked.listing, asked.keyword, asked.page + 1)
                               ELSE ""]
    /\ vpc' = "shown"
    /\ UNCHANGED <<upd, asked, unhandled, catalog, rpp>>
    /\ UNCHANGED outsideView

\* the user clicks the previous-page or the next-page button of the results
ClickNav ==
    /\ vpc = "shown"
    /\ shown.kind = "results"
    /\ \E dir \in {"prev", "next"} :
          /\ (IF dir = "prev" THEN shown.prev ELSE shown.next) # ""
          /\ upd' = [kind |-> "click",
                     data |-> IF dir = "prev" THEN shown.prev ELSE shown.next,
                     origin |-> [listing |-> shown.listing, keyword |-> shown.keyword,
                                 page |-> shown.page, dir |-> dir]]
    /\ vpc' = "received"
    /\ UNCHANGED <<asked, shown, unhandled, catalog, rpp>>
    /\ UNCHANGED outsideView

InitView ==
    /\ ParserIdle
    /\ ApiIdle
    /\ DbIdle
    /\ PollIdle
    /\ vpc = "received"
    /\ upd \in FirstUpdates
    /\ asked = NotAsked
    /\ shown = NothingShown
    /\ unhandled = ""
    /\ catalog \in CatalogSizes
    /\ rpp \in ConfiguredSizes

NextView == TextMessage \/ HotCommand \/ ButtonCallback \/ SearchReply \/ ClickNav

SpecView == InitView /\ [][NextView]_vars

(***************************************************************************)
(* The detail view and the parameter-explanation view of one work          *)
(* (src/bot/telegram_bot.py, _send_work_detail and                         *)
(* _send_parameter_explanation).  `input` holds the work; `text` the text  *)
(* last handed to parse_parameters, `params` the map it returned,          *)
(* `summary` the quick summary of the detail message and `explained` the   *)
(* text of the explanation message.                                        *)
(***************************************************************************)
\* the node loop of parse_comfyui_workflow, lines 88-131
RECURSIVE VisitAll(_, _)
VisitAll(st, nodes) ==
    IF nodes = <<>> \/ st.err # "" THEN st
    ELSE VisitAll(VisitNode(st, nodes[1].v), Tail(nodes))

\* parse_comfyui_workflow(s): the map, or the exception that leaves it
\* lines 133-142: after the loop, or after the exception st.err
AfterNodes(st) ==
    IF st.err = "" THEN [err |-> "", v |-> FinishWorkflow(st.params, st.loras)]
    ELSE IF Catches(st.err) THEN [err |-> "", v |-> st.params]
    ELSE [err |-> st.err, v |-> <<>>]

\* lines 79-88: json.loads has raised, or has returned the workflow
AfterLoads(data) ==
    IF ~data.ok
    THEN [err |-> IF Catches("JSONDecodeError") THEN "" ELSE "JSONDecodeError", v |-> <<>>]
    ELSE AfterNodes(VisitAll([params |-> <<>>, loras |-> <<>>, err |-> ""], data.v.kids))

\* lines 74-81: the text from the first { to the last }
AfterMatch(json_match) ==
    IF ~json_match.ok THEN [err |-> "", v |-> <<>>]
    ELSE AfterLoads(JsonLoads(json_match.group))

ParseComfyuiWorkflow(s) == AfterMatch(JsonMatch(s))

\* lines 167-171: Method 2 when Method 1 has found nothing
AfterMethod1(s, found) ==
    IF NeedsMethod2(found) THEN ParseComfyuiWorkflow(s) ELSE [err |-> "", v |-> found]

\* parse_parameters(s), lines 145-171
ParseParameters(s) ==
    IF s = "" THEN [err |-> "", v |-> <<>>]
    ELSE AfterMethod1(s, LoraScan(InlineScan(s), s))

\* lines 607-612: the prompt of the Comment of ai_json, "" when ai_json does
\* not decode to a dict with a dict under "Comment" (the works given hold a
\* string or nothing under its key "prompt")
CommentPrompt(ai_json) ==
    LET r == JsonLoads(ai_json)
        comment == DictGet(r.v, "Comment", PyDict(<<>>))
    IN  IF ai_json = "" \/ ~r.ok \/ ~IsDict(r.v) THEN ""
        ELSE IF ~IsDict(comment) THEN ""
        ELSE IF IsStr(DictGet(comment, "prompt", PyNone))
        THEN DictGet(comment, "prompt", PyNone).s
        ELSE ""

\* lines 600-612: the prompt of the detail view
DetailPrompt(w) == IF w.prompt_text # "" THEN w.prompt_text ELSE CommentPrompt(w.ai_json)

GivenPrompts ==
    { "",
      "1girl, solo",
      "Steps: 20, Sampler: Euler a, CFG scale: 7",
      "Steps: 20, Sampler: x, STEPS: 30",
      "Model hash: a1, model: base, MODEL HASH: b2, Model: xl",
      "best quality <lora:charA:0.8>" }

\* workflows (the second with a LoRA tag in a text input), and a record
\* with the prompt under Comment
\* a workflow with a Checkpoint node and a Lora node whose inputs.text is a
\* LoRA tag
LoraTagWorkflow ==
    JsonDumps(Workflow(<< Node(PyStr("CheckpointLoaderSimple"),
                               Inputs1("ckpt_name", PyStr("foo.safetensors"))),
                          Node(PyStr("LoraLoader"),
                               Inputs1("text", PyStr("<lora:style:0.8>"))) >>))

GivenAiJsons ==
    { "",
      JsonDumps(Workflow(<< Node(PyStr("CheckpointLoaderSimple"),
                                 Inputs1("ckpt_name", PyStr("foo.safetensors"))),
                            Node(PyStr("KSampler"),
                                 PyDict(<< [k |-> "steps", v |-> PyInt(25)],
                                           [k |-> "sampler_name", v |-> PyStr("euler")] >>)) >>)),
      LoraTagWorkflow,
      "{\"Comment\": {\"prompt\": \"1girl, smile\", \"uc\": \"lowres\"}, \"Sampler\": \"k_euler\"}",
      "not json" }

GivenWorks == {[kind |-> "work", prompt_text |-> pt, ai_json |-> aj] :
                  pt \in GivenPrompts, aj \in GivenAiJsons}

\* the call of parse_parameters(s) inside a view: the map is kept, or the
\* exception leaves the handler
Returned(s, r, then) ==
    /\ text' = s
    /\ IF r.err = ""
       THEN /\ params' = r.v
            /\ pc' = then
            /\ UNCHANGED raised
       ELSE /\ raised' = raised \cup {"parse_parameters"}
            /\ pc' = "failed"
            /\ UNCHANGED params

CallParse(s, then) == Returned(s, ParseParameters(s), then)

\* _send_work_detail, lines 639-641: `if prompt: params = parse_parameters(prompt)`
DetailParse ==
    /\ pc = "detail"
    /\ LET prompt == DetailPrompt(input)
       IN  IF prompt # ""
           THEN CallParse(prompt, "detail_parsed")
           ELSE /\ pc' = "detail_shown"
                /\ UNCHANGED <<text, params, raised>>
    /\ UNCHANGED <<input, loras, todo, ranWorkflow, caught, summary, explained>>
    /\ UNCHANGED outsideParser

\* lines 642-645: the quick summary of the caption
DetailSummary ==
    /\ pc = "detail_parsed"
    /\ summary' = QuickSummary(params).out
    /\ raised' = IF QuickSummary(params).ok THEN raised ELSE raised \cup {"get_quick_summary"}
    /\ pc' = IF QuickSummary(params).ok THEN "detail_shown" ELSE "failed"
    /\ UNCHANGED <<input, text, params, loras, todo, ranWorkflow, caught, explained>>
    /\ UNCHANGED outsideParser

\* the user clicks the explain button of the detail message (line 664);
\* _send_parameter_explanation, lines 781-791
ExplainParse ==
    /\ pc = "detail_shown"
    /\ CallParse(input.prompt_text, "explain_parsed")
    /\ UNCHANGED <<input, loras, todo, ranWorkflow, caught, summary, explained>>
    /\ UNCHANGED outsideParser

\* lines 794-795: `if not params and ai_json_str`
ExplainFallback ==
    /\ pc = "explain_parsed"
    /\ IF params = <<>> /\ input.ai_json # ""
       THEN CallParse(input.ai_json, "explain_ready")
       ELSE /\ pc' = "explain_ready"
            /\ UNCHANGED <<text, params, raised>>
    /\ UNCHANGED <<input, loras, todo, ranWorkflow, caught, summary, explained>>
    /\ UNCHANGED outsideParser

\* lines 797-799: the explanation is sent
ExplainText ==
    /\ pc = "explain_ready"
    /\ explained' = Explain(params)
    /\ pc' = "explained"
    /\ UNCHANGED <<input, text, params, loras, todo, ranWorkflow, caught, raised, summary>>
    /\ UNCHANGED outsideParser

InitWorks ==
    /\ input \in GivenWorks
    /\ text = ""
    /\ pc = "detail"
    /\ params = <<>>
    /\ loras = <<>>
    /\ todo = <<>>
    /\ ranWorkflow = FALSE
    /\ caught = FALSE
    /\ raised = {}
    /\ summary = ""
    /\ explained = ""
    /\ OutsideParserIdle

NextWorks == DetailParse \/ DetailSummary \/ ExplainParse \/ ExplainFallback \/ ExplainText

SpecWorks == InitWorks /\ [][NextWorks]_vars

(***************************************************************************)
(* What the text was put together from, read off `input`.                  *)
(***************************************************************************)
Parts == input.parts

PairsOf(parts) == SelectSeq(parts, LAMBDA p : p.kind = "pair")

TagsOf(parts) == SelectSeq(parts, LAMBDA p : p.kind = "tag")

TagNames(parts) == [i \in 1..Len(TagsOf(parts)) |-> TagsOf(parts)[i].value]

\* the text is pairs and LoRA tags with nothing but separators between them
PlainParts(parts) ==
    \A i \in 1..Len(parts) : parts[i].kind \in {"pair", "tag"} \/ parts[i].text \in {", ", "\n"}

\* the distinct elements of names, each where it stands first
RECURSIVE FirstSeen(_, _)
FirstSeen(names, seen) ==
    IF names = <<>> THEN <<>>
    ELSE IF names[1] \in seen THEN FirstSeen(Tail(names), seen)
    ELSE <<names[1]>> \o FirstSeen(Tail(names), seen \cup {names[1]})

\* the key each pair or tag of the text is stored under, in text order
KeysAsSeen(parts) ==
    LET hits == SelectSeq(parts, LAMBDA p : p.kind \in {"pair", "tag"})
    IN  [i \in 1..Len(hits) |-> IF hits[i].kind = "tag" THEN "lora" ELSE Lower(hits[i].key)]

InlineKeysAsSeen(parts) == [i \in 1..Len(PairsOf(parts)) |-> Lower(PairsOf(parts)[i].key)]

DistinctKeys(parts) ==
    \A i, j \in 1..Len(parts) : i # j => Lower(parts[i].key) # Lower(parts[j].key)

\* s without the suffix suf
WithoutSuffix(s, suf) ==
    IF Len(s) >= Len(suf) /\ SubSeq(s, Len(s) - Len(suf) + 1, Len(s)) = suf
    THEN SubSeq(s, 1, Len(s) - Len(suf))
    ELSE s

\* the decimal text of a JSON number
DecimalText(v) == IF v.t = "int" THEN IntStr(v.n) ELSE v.s

KeySet(d) == {d[i].k : i \in 1..Len(d)}

\* a node {"class_type": "CheckpointLoaderSimple", "inputs": {"ckpt_name": "X.safetensors"}}
IsCheckpointNode(n) ==
    /\ IsDict(n)
    /\ KeySet(n.kids) = {"class_type", "inputs"}
    /\ Get(n.kids, "class_type") = PyStr("CheckpointLoaderSimple")
    /\ IsDict(Get(n.kids, "inputs"))
    /\ KeySet(Get(n.kids, "inputs").kids) = {"ckpt_name"}
    /\ IsStr(Get(Get(n.kids, "inputs").kids, "ckpt_name"))
    /\ WithoutSuffix(Get(Get(n.kids, "inputs").kids, "ckpt_name").s, ".safetensors")
         # Get(Get(n.kids, "inputs").kids, "ckpt_name").s

\* a node {"class_type": "KSampler", "inputs": {steps, cfg, sampler_name, seed}}
\* with numbers for steps, cfg and seed and a string for sampler_name
IsSamplerNode(n) ==
    /\ IsDict(n)
    /\ KeySet(n.kids) = {"class_type", "inputs"}
    /\ Get(n.kids, "class_type") = PyStr("KSampler")
    /\ IsDict(Get(n.kids, "inputs"))
    /\ KeySet(Get(n.kids, "inputs").kids) = {"steps", "cfg", "sampler_name", "seed"}
    /\ Get(Get(n.kids, "inputs").kids, "steps").t = "int"
    /\ Get(Get(n.kids, "inputs").kids, "cfg").t \in {"int", "float"}
    /\ IsStr(Get(Get(n.kids, "inputs").kids, "sampler_name"))
    /\ Get(Get(n.kids, "inputs").kids, "seed").t = "int"

\* the items the claim C7 lists for a checkpoint node c and a sampler node k
ListedItems(c, k) ==
    LET ci == Get(c.kids, "inputs").kids
        ki == Get(k.kids, "inputs").kids
    IN  { [k |-> "checkpoint", v |-> PyStr(WithoutSuffix(Get(ci, "ckpt_name").s, ".safetensors"))],
          [k |-> "steps", v |-> PyStr(DecimalText(Get(ki, "steps")))],
          [k |-> "cfg scale", v |-> PyStr(DecimalText(Get(ki, "cfg")))],
          [k |-> "sampler", v |-> Get(ki, "sampler_name")],
          [k |-> "seed", v |-> PyStr(DecimalText(Get(ki, "seed")))],
          [k |-> "workflow", v |-> PyStr("ComfyUI")] }

\* a node whose class_type holds "checkpoint" in some letter case and whose
\* inputs hold a non-empty ckpt_name
IsCheckpointLikeNode(n) ==
    /\ IsDict(n)
    /\ HasKey(n.kids, "class_type")
    /\ IsStr(Get(n.kids, "class_type"))
    /\ Contains(Lower(Get(n.kids, "class_type").s), "checkpoint")
    /\ HasKey(n.kids, "inputs")
    /\ IsDict(Get(n.kids, "inputs"))
    /\ HasKey(Get(n.kids, "inputs").kids, "ckpt_name")
    /\ IsStr(Get(Get(n.kids, "inputs").kids, "ckpt_name"))
    /\ Get(Get(n.kids, "inputs").kids, "ckpt_name").s # ""

CheckpointLikeNodes(nodes) == {i \in 1..Len(nodes) : IsCheckpointLikeNode(nodes[i])}

\* those of them whose class_type holds the word written "Checkpoint"
CheckpointNamedNodes(nodes) ==
    {i \in CheckpointLikeNodes(nodes) : Contains(Get(nodes[i].kids, "class_type").s, "Checkpoint")}

\* ckpt_name of a node without its .safetensors or .ckpt suffix
CheckpointNameOf(n) ==
    WithoutSuffix(WithoutSuffix(Get(Get(n.kids, "inputs").kids, "ckpt_name").s, ".safetensors"),
                  ".ckpt")

\* where the entry of key k starts in the rendered explanation, 0 if nowhere
RenderedAt(k) == FindFrom(explained, "<b>* " \o PARAM_EXPLANATIONS[k].name \o "</b>", 1)

(***************************************************************************)
(* The claims.                                                             *)
(***************************************************************************)

\* C1: parse_parameters never raises to its caller: every exception of the
\* workflow parse (malformed JSON, a node of an unexpected shape) is caught
\* inside, and the call returns a map, possibly empty.
C1_ParseNeverRaises ==
    /\ pc # "failed"
    /\ "parse_parameters" \notin raised
    /\ pc = "returned" =>
          \A i, j \in 1..Len(params) : params[i].k = params[j].k => i = j

\* the except clause ran after a node had been read, and the call returned
C1_Witness == pc = "returned" /\ caught /\ params # <<>>

\* C2: explain_parameters and get_quick_summary never raise on a map from
\* string keys to string values, values that are empty or only white space
\* included.
C2_SummaryAndExplainTotal ==
    (pc \in {"summarized", "done"} /\ \A i \in 1..Len(params) : IsStr(params[i].v))
        => raised = {}

\* C3 as stated: parse_parameters runs the workflow parse exactly when the
\* inline scan and the LoRA scan of the text both stored nothing; if either
\* stored an entry the returned map is what they stored and has no
\* `workflow` key.
C3_WorkflowIffScansEmpty ==
    pc = "returned" =>
        /\ ranWorkflow <=> LoraScan(InlineScan(text), text) = <<>>
        /\ ~ranWorkflow => /\ params = LoraScan(InlineScan(text), text)
                           /\ ~HasKey(params, "workflow")

\* C3 amended: for a non-empty text the workflow parse runs exactly when
\* both scans stored nothing, and otherwise the returned map is what the
\* scans stored, without a `workflow` key; for the empty text the call
\* returns the empty map and the workflow parse does not run.
C3_WorkflowIffScansEmptyNonEmptyText ==
    pc = "returned" =>
        /\ text # "" =>
              /\ ranWorkflow <=> LoraScan(InlineScan(text), text) = <<>>
              /\ ~ranWorkflow => /\ params = LoraScan(InlineScan(text), text)
                                 /\ params # <<>>
                                 /\ ~HasKey(params, "workflow")
        /\ text = "" => ~ranWorkflow /\ params = <<>>

\* a text that holds a JSON object and a LoRA tag or a pair: the scans stored
\* an entry and the workflow parse did not run
C3_Witness ==
    /\ pc = "returned"
    /\ ~ranWorkflow
    /\ params # <<>>
    /\ JsonMatch(text).ok
    /\ JsonLoads(JsonMatch(text).group).ok

C5_LoraNamesJoined ==
    (pc = "returned" /\ input.kind = "pieces" /\ TagsOf(Parts) # <<>>) =>
        /\ HasKey(params, "lora")
        /\ Get(params, "lora") = PyStr(Join(TagNames(Parts), ", "))

\* two tags with different names, one of them written <LoRA:
C5_Witness ==
    /\ pc = "returned"
    /\ input.kind = "pieces"
    /\ HasKey(params, "lora")
    /\ Len(TagsOf(Parts)) = 2
    /\ TagNames(Parts)[1] # TagNames(Parts)[2]
    /\ \E i \in 1..Len(Parts) : Parts[i].kind = "tag" /\ StartsWithAt(Parts[i].text, 1, "<LoRA:")

\* C6 as stated: the keys of the returned map stand in the order in which
\* each key is first seen in the text, `lora` at the place of the first tag.
C6_OrderAsSeen ==
    (pc = "returned" /\ input.kind \in {"pairs", "pieces"} /\ PlainParts(Parts)) =>
        Keys(params) = FirstSeen(KeysAsSeen(Parts), {})

\* C6 amended: the inline keys stand in the order in which each is first
\* seen in the text and `lora` stands after all of them wherever the tags
\* are; explain_parameters renders the entries in the order of the map,
\* after the line of the tool.
C6_InlineOrderThenLora ==
    /\ (pc \in {"returned", "done"} /\ input.kind \in {"pairs", "pieces"} /\ PlainParts(Parts)) =>
          Keys(params) = FirstSeen(InlineKeysAsSeen(Parts), {})
                           \o (IF TagsOf(Parts) # <<>> THEN <<"lora">> ELSE <<>>)
    /\ pc = "done" =>
          \A i, j \in 1..Len(params) :
              (i < j /\ params[i].k # "workflow" /\ params[j].k # "workflow") =>
                  /\ RenderedAt(params[i].k) > 0
                  /\ RenderedAt(params[i].k) < RenderedAt(params[j].k)
                  /\ HasKey(params, "workflow") =>
                        /\ FindFrom(explained, "<b>tool</b>", 1) > 0
                        /\ FindFrom(explained, "<b>tool</b>", 1) < RenderedAt(params[i].k)

\* a LoRA tag stands before Steps: in the text, and the map is rendered
C6_Witness ==
    /\ pc = "done"
    /\ input.kind = "pieces"
    /\ PlainParts(Parts)
    /\ Len(Parts) >= 2
    /\ Parts[1].kind = "tag"
    /\ PairsOf(Parts) # <<>>
    /\ Keys(params) = <<"steps", "lora">>

\* C7: for a workflow of one CheckpointLoaderSimple node with ckpt_name
\* X.safetensors and one KSampler node with steps, cfg, sampler_name and
\* seed, in either order, parse_parameters returns the map with checkpoint
\* X, steps, cfg scale and seed as decimal text, sampler, and workflow
\* "ComfyUI".
C7_CheckpointAndSampler ==
    (pc = "returned" /\ input.kind = "workflow" /\ Len(Parts) = 2) =>
        /\ (IsCheckpointNode(Parts[1]) /\ IsSamplerNode(Parts[2])) =>
              /\ Len(params) = 6
              /\ {params[i] : i \in 1..Len(params)} = ListedItems(Parts[1], Parts[2])
        /\ (IsSamplerNode(Parts[1]) /\ IsCheckpointNode(Parts[2])) =>
              /\ Len(params) = 6
              /\ {params[i] : i \in 1..Len(params)} = ListedItems(Parts[2], Parts[1])

\* the sampler node stands first and has a fraction for cfg
C7_Witness ==
    /\ pc = "returned"
    /\ input.kind = "workflow"
    /\ Len(Parts) = 2
    /\ IsSamplerNode(Parts[1])
    /\ IsCheckpointNode(Parts[2])
    /\ Get(Get(Parts[1].kids, "inputs").kids, "cfg").t = "float"
    /\ Len(params) = 6

\* C8: the map the workflow parse returns is empty or holds `workflow` with
\* the value "ComfyUI"; after an exception of the parse it is as after a
\* clean parse.
C8_EmptyOrMarked ==
    (pc = "returned" /\ ranWorkflow) =>
        \/ params = <<>>
        \/ HasKey(params, "workflow") /\ Get(params, "workflow") = PyStr("ComfyUI")

C10_ValuesAreStrings ==
    pc = "returned" => \A i \in 1..Len(params) : IsStr(params[i].v)

\* how often w stands in s
Occurrences(s, w) == Cardinality({p \in 1..Len(s) : StartsWithAt(s, p, w)})

\* the entries explain_parameters has to render as entries
OtherEntries(d) == {i \in 1..Len(d) : d[i].k # "workflow"}

KnownEntries(d) == {i \in OtherEntries(d) : Lower(d[i].k) \in DOMAIN PARAM_EXPLANATIONS}

\* what the rendered text holds for the i-th entry of d
RenderedEntry(d, i) ==
    IF i \in KnownEntries(d)
    THEN "<b>* " \o PARAM_EXPLANATIONS[Lower(d[i].k)].name \o "</b>\n"
         \o "   value: <code>" \o d[i].v.s \o "</code>\n"
         \o "   hint: " \o PARAM_EXPLANATIONS[Lower(d[i].k)].desc \o "\n"
    ELSE "<b>* " \o d[i].k \o "</b>: <code>" \o d[i].v.s \o "</code>\n"

\* C11: for a non-empty map explain_parameters renders the `workflow`
\* entry, if present, once and before all other entries, then every other
\* entry exactly once, with display name, value and description when the
\* key is in the knowledge base and as raw key and value without
\* description otherwise; for the empty map it returns the fixed message.
C11_ExplainRendersEveryEntryOnce ==
    (pc = "done" /\ \A i \in 1..Len(params) : IsStr(params[i].v)) =>
        IF params = <<>> THEN explained = NoParamsMessage
        ELSE /\ explained # NoParamsMessage
             /\ Occurrences(explained, "<b>tool</b>: ")
                  = (IF HasKey(params, "workflow") THEN 1 ELSE 0)
             /\ HasKey(params, "workflow") =>
                  /\ Contains(explained, "<b>tool</b>: " \o Get(params, "workflow").s \o "\n")
                  /\ \A p \in 1..Len(explained) :
                        StartsWithAt(explained, p, "<b>* ")
                            => FindFrom(explained, "<b>tool</b>: ", 1) < p
             /\ Occurrences(explained, "<b>* ") = Cardinality(OtherEntries(params))
             /\ Occurrences(explained, "   hint: ") = Cardinality(KnownEntries(params))
             /\ \A i \in OtherEntries(params) : Contains(explained, RenderedEntry(params, i))

\* a map whose last entry is `workflow`, with a key of the knowledge base
\* in upper case and a key it does not have
C11_Witness ==
    /\ pc = "done"
    /\ Len(params) >= 3
    /\ params[Len(params)].k = "workflow"
    /\ HasKey(params, "Seed")
    /\ HasKey(params, "foo")

\* the value get_quick_summary takes the name from: that of `model`, or that
\* of `checkpoint` when there is no usable `model`; "" when there is none
NameSource(d) ==
    IF HasKey(d, "model") /\ Get(d, "model").s # "" THEN Get(d, "model").s
    ELSE IF HasKey(d, "checkpoint") THEN Get(d, "checkpoint").s
    ELSE ""

\* the name a summary shows in its model fragment
ShownName(s) ==
    LET bar == FindFrom(s, " | ", 9)
    IN  SubSeq(s, 9, IF bar = 0 THEN Len(s) ELSE bar - 1)

\* a name cut to 17 characters and "..." when it has more than 20
Shortened(name) == IF Len(name) > 20 THEN SubSeq(name, 1, 17) \o "..." ELSE name

\* the fragments C12 lists for a map: one for each key present
ListedFragments(d) ==
    (IF HasKey(d, "model")
     THEN <<"[model] " \o Shortened(Strip(BeforeComma(Get(d, "model").s)))>>
     ELSE IF HasKey(d, "checkpoint")
     THEN <<"[model] " \o Shortened(Strip(BeforeComma(Get(d, "checkpoint").s)))>>
     ELSE <<>>)
    \o (IF HasKey(d, "steps") THEN <<"[steps] " \o Get(d, "steps").s \o " steps">> ELSE <<>>)
    \o (IF HasKey(d, "cfg scale") THEN <<"[cfg] CFG " \o Get(d, "cfg scale").s>> ELSE <<>>)
    \o (IF HasKey(d, "sampler") THEN <<"[sampler] " \o FirstToken(Get(d, "sampler").s)>> ELSE <<>>)
    \o (IF HasKey(d, "workflow") THEN <<"[tool] " \o Get(d, "workflow").s>> ELSE <<>>)

\* C12: for every map get_quick_summary returns the fragments for
\* model-or-checkpoint (checkpoint only when model is absent), steps, cfg
\* scale, the first token of sampler, and workflow, in this order, one for
\* each of these keys present, joined by " | "; the empty string when none
\* is present.
C12_OneFragmentPerKey ==
    (pc = "summarized" /\ \A i \in 1..Len(params) : IsStr(params[i].v)) =>
        /\ "get_quick_summary" \notin raised
        /\ summary = Join(ListedFragments(params), " | ")

\* C13 as stated: the name shown is the stored value unchanged when it has
\* at most 20 characters, otherwise its first 17 characters and "...".
C13_NameAsStored ==
    (pc = "summarized" /\ "get_quick_summary" \notin raised /\ NameSource(params) # "") =>
        /\ StartsWithAt(summary, 1, "[model] ")
        /\ ShownName(summary) = Shortened(NameSource(params))

\* C13 amended: the name shown is the part of the stored value before its
\* first comma, without white space around it: unchanged when that part has
\* at most 20 characters, otherwise its first 17 characters and "..."; it
\* is never longer than 20 characters.
C13_NameBeforeComma ==
    (pc = "summarized" /\ "get_quick_summary" \notin raised /\ NameSource(params) # "") =>
        LET name == Strip(BeforeComma(NameSource(params)))
        IN  /\ StartsWithAt(summary, 1, "[model] ")
            /\ Len(name) <= 20 => ShownName(summary) = name
            /\ Len(name) > 20 => ShownName(summary) = SubSeq(name, 1, 17) \o "..."
            /\ Len(ShownName(summary)) <= 20

\* a name of 21 characters is shown cut, before a further fragment
C13_Witness ==
    /\ pc = "summarized"
    /\ "get_quick_summary" \notin raised
    /\ Len(NameSource(params)) = 21
    /\ Len(ShownName(summary)) = 20
    /\ HasKey(params, "steps")

(***************************************************************************)
(* The catalog client.                                                     *)
(***************************************************************************)
ContainerKeys == {"data", "works", "items"}

CountKeys == {"total", "total_count", "count"}

\* the JSON object b has one of the keys
HasAnyKey(b, keys) == \E k \in keys : HasKey(b.kids, k)

\* the data of the reply have been normalised: items and total are known
Normalized == call = "normalize" /\ apc = "counted"

\* C14: for every item list L, extract_works returns L for the bare list L
\* and for the objects {data: L}, {works: L} and {items: L}; for an object
\* with none of these keys it returns the empty list, and get_total_count
\* returns 0 when the object has no total, total_count or count key either.
C14_ShapesNormalizeAlike ==
    Normalized =>
        /\ \A L \in ItemLists :
              response.body \in {L, Obj1("data", L), Obj1("works", L), Obj1("items", L)}
                  => works = Ret(L)
        /\ (IsDict(response.body) /\ ~HasAnyKey(response.body, ContainerKeys))
              => /\ works = Ret(PyList(<<>>))
                 /\ ~HasAnyKey(response.body, CountKeys) => total = Ret(PyInt(0))

C14_Witness ==
    /\ Normalized
    /\ response.body = Obj1("items", PyList(<<Work(1), Work(2)>>))
    /\ works = Ret(PyList(<<Work(1), Work(2)>>))
    /\ total = Ret(PyInt(2))

\* the value under the first present of total, total_count, count
FirstCount(b) ==
    IF HasKey(b.kids, "total") THEN Get(b.kids, "total")
    ELSE IF HasKey(b.kids, "total_count") THEN Get(b.kids, "total_count")
    ELSE Get(b.kids, "count")

\* C15: for every upstream JSON response, objects with null or a non-list
\* under the container key and null or a non-number under the count key
\* included, the normalised items are a list and the total is an integer, the
\* first present of total, total_count, count, else the number of items.
C15_ItemsListTotalInteger ==
    Normalized =>
        /\ works.err = ""
        /\ works.v.t = "list"
        /\ total.err = ""
        /\ total.v.t = "int"
        /\ total.v = IF IsDict(response.body) /\ HasAnyKey(response.body, CountKeys)
                     THEN FirstCount(response.body)
                     ELSE PyInt(Len(works.v.kids))
\* the count request of get_random_work was answered with an integer total
CountReported == call = "get_random_work" /\ total.err = "" /\ total.v.t = "int"

\* C16: when the count request of get_random_work reports a total of 0 or
\* less, the call returns Failure and issues no page request: exactly one
\* HTTP request is made.
C16_NoItemsNoPageRequest ==
    (CountReported /\ total.v.n <= 0) =>
        /\ apc = "returned"
        /\ result = Failure
        /\ requests = 1
        /\ page = 0

C16_Witness ==
    /\ CountReported
    /\ response = Reply200(Obj2("works", PyList(<<Work(1)>>), "total_count", PyInt(0)))
    /\ total.v.n = 0
    /\ apc = "returned"
    /\ result = Failure
    /\ requests = 1

\* the reply to the last page request holds a non-empty item list
PageHoldsItems ==
    /\ requests > 1
    /\ response.kind = "ok"
    /\ works.err = ""
    /\ works.v.t = "list"
    /\ works.v.kids # <<>>

\* the reply to the last page request came back without items
PageCameBackEmpty ==
    /\ requests > 1
    /\ \/ response.kind = "status"
       \/ response.kind = "ok" /\ works.err = "" /\ ~Truthy(works.v)

\* the last page request raised, or its body was not JSON, or the body held
\* something random.choice or extract_works cannot use
PageRaised ==
    /\ requests > 1
    /\ \/ response.kind \in {"timeout", "error", "badjson"}
       \/ response.kind = "ok" /\ works.err # ""
       \/ response.kind = "ok" /\ works.err = "" /\ Truthy(works.v) /\ works.v.t \notin {"list", "str"}

\* at most 3 page requests, each for a page p with
\* 1 <= p <= min(ceil(total / 10), 200); the call stops at the first reply
\* that holds a non-empty item list and returns one of its elements
PagesAndPick ==
    /\ requests <= 1 + 3
    /\ page # 0 => /\ 1 <= page
                   /\ page <= 200
                   /\ (page - 1) * 10 < total.v.n
    /\ PageHoldsItems =>
          /\ apc = "returned"
          /\ \E i \in 1..Len(works.v.kids) : result = Ret(works.v.kids[i])

\* C17 as stated: when the count request reports total > 0, at most 3 further
\* requests, each for a page within 1..min(ceil(total/10), 200); the call
\* stops at the first non-empty item list and returns one of its elements;
\* it returns Failure exactly when all 3 attempts come back empty.
C17_FailureExactlyAfterThreeEmpty ==
    (CountReported /\ total.v.n > 0) =>
        /\ PagesAndPick
        /\ apc = "returned" =>
              (result = Failure <=> (requests = 1 + 3 /\ PageCameBackEmpty))

\* C17, amended: as above, but the call returns Failure exactly when all 3
\* attempts came back without items or the last request raised (a timeout, a
\* transport error, a body that is not JSON or not of a usable shape), which
\* ends the call before the remaining attempts.
C17_FailureAfterThreeEmptyOrRaise ==
    (CountReported /\ total.v.n > 0) =>
        /\ PagesAndPick
        /\ apc = "returned" =>
              (result = Failure <=> (PageRaised \/ (requests = 1 + 3 /\ PageCameBackEmpty)))

C17_Witness ==
    /\ CountReported
    /\ total.v.n = 2001
    /\ requests = 3
    /\ page = 200
    /\ PageHoldsItems
    /\ apc = "returned"
    /\ result = Ret(Work(2))

\* C18: in search_works, get_monthly_ranking, get_work_detail and
\* get_random_work, an HTTP failure of any request of the call (a status
\* other than 2xx, a timeout, a transport error) makes the call return
\* Failure, and the call issues no further request after the failed one.
C18_HttpFailureEndsCall ==
    (call \in Methods /\ failures > 0) =>
        /\ apc = "returned"
        /\ result = Failure
        /\ IsHttpFailure(response)
(***************************************************************************)
(* The subscription store.                                                 *)
(***************************************************************************)
\* the author a click is about
ClickTarget(h) ==
    IF IsSubClick(h) THEN SubAuthorParts(h.data).author_id ELSE UnsubAuthorId(h.data)

\* a row of the user for the author of the click
RowOfClick(rows, h) ==
    {r \in rows : r.user_id = h.user /\ r.sub_type = "author" /\ r.sub_target = ClickTarget(h)}

\* the click's statement on the table has run
RanStatement(h) == h.pc \in {"edit", "done"}

\* the step in which the click of p runs its statement on the table
RunsStatement(p) == handlers[p].pc = "dispatch" /\ handlers'[p].pc # "dispatch"

\* the clicks of user u on author t whose add_subscription returned True
AddedBy(u, t) ==
    {p \in Procs : /\ IsSubClick(handlers[p])
                   /\ handlers[p].user = u
                   /\ ClickTarget(handlers[p]) = t
                   /\ RanStatement(handlers[p])
                   /\ handlers[p].success}

Targets == {ClickTarget(c) : c \in Clicks}

OneRowPerTriple ==
    \A r1, r2 \in store :
        (r1.user_id = r2.user_id /\ r1.sub_type = r2.sub_type /\ r1.sub_target = r2.sub_target)
            => r1 = r2

\* of the adds of one triple that no remove competes with, at most one
\* returns True; when they have all run, exactly one has, unless the row was
\* in the table before the clicks
OneAddSucceeds ==
    \A u \in Users, t \in Targets :
        LET adds == {p \in Procs : /\ IsSubClick(handlers[p])
                                   /\ handlers[p].user = u
                                   /\ ClickTarget(handlers[p]) = t}
            removes == {p \in Procs : /\ IsUnsubClick(handlers[p])
                                      /\ handlers[p].user = u
                                      /\ ClickTarget(handlers[p]) = t}
        IN  (removes = {} /\ adds # {}) =>
                /\ Cardinality(AddedBy(u, t)) <= 1
                /\ (\A p \in adds : RanStatement(handlers[p])) =>
                      /\ \E r \in store : r.user_id = u /\ r.sub_target = t
                      /\ Cardinality(AddedBy(u, t)) =
                            IF \E r \in store : r.user_id = u /\ r.sub_target = t /\ r.id \in InitialIds
                            THEN 0 ELSE 1

ReturnTellsExistence ==
    \A p \in Procs :
        RunsStatement(p) =>
            IF IsSubClick(handlers[p])
            THEN handlers'[p].success = (RowOfClick(store, handlers[p]) = {})
            ELSE handlers'[p].success = (RowOfClick(store, handlers[p]) # {})

\* C19: after any interleaving of the add_subscription and
\* remove_subscription calls of concurrently handled updates the store holds
\* at most one row per (user, type, target); add_subscription returns True
\* exactly when no row of the triple existed (of several concurrent adds of
\* one triple exactly one returns True), and remove_subscription returns
\* True exactly when a row existed.
C19_OneRowAndTruthfulReturns ==
    /\ [](OneRowPerTriple /\ OneAddSucceeds)
    /\ [][ReturnTellsExistence]_vars

C19_Witness ==
    /\ \A p \in Procs : handlers[p].pc = "done"
    /\ \A p \in Procs : handlers[p].user = 1 /\ IsSubClick(handlers[p]) /\ ClickTarget(handlers[p]) = "a7"
    /\ handlers[1].data # handlers[2].data
    /\ Cardinality(AddedBy(1, "a7")) = 1
    /\ Cardinality(store) = 1
    /\ \E r \in store : r.id = 1 /\ r.user_id = 1 /\ r.sub_target = "a7"

\* C20: a sub_author click for an author the user already subscribes to
\* raises no error, leaves the store as it is (same row, same stored display
\* name, the rows of other users untouched) and answers the click with the
\* already-subscribed notice.
C20_DuplicateClickIsNotice ==
    [][\A p \in Procs :
          (RunsStatement(p) /\ IsSubClick(handlers[p]) /\ RowOfClick(store, handlers[p]) # {})
              => /\ store' = store
                 /\ seq' = seq
                 /\ handlers'[p].pc = "done"
                 /\ handlers'[p].button = handlers[p].button
                 /\ handlers'[p].answers =
                        Append(handlers[p].answers,
                               Answer(AlreadyNotice(SubAuthorParts(handlers[p].data).author_name), TRUE))
      ]_vars

C20_Witness ==
    \E p \in Procs :
        /\ handlers[p].user = 1
        /\ handlers[p].data = "sub_author:a7:Anna"
        /\ handlers[p].pc = "done"
        /\ ~handlers[p].success
        /\ handlers[p].answers = <<Answer("", FALSE), Answer(AlreadyNotice("Anna"), TRUE)>>
        /\ SubRow(11, 1, "author", "a7", "Ann") \in store
        /\ SubRow(12, 2, "author", "a7", "Ann") \in store
(***************************************************************************)
(* The polling loop.                                                       *)
(***************************************************************************)
\* the last getUpdates request failed and no new one has gone out yet
RequestFailed == polled \in FailureKinds /\ ppc \in {"sleep", "poll", "ended"}

\* once the loop has left a batch, every update of it was handed on
BatchHandled ==
    (polled = "ok" /\ ppc # "batch") =>
        \A i \in 1..Len(received) : dispatched[received[i]] >= 1

\* C21: once polling has started, no failure of a getUpdates request (a
\* status other than 200, ok = false, a timeout, a transport error, a
\* malformed body) and no exception raised while an update is handled ends
\* the polling loop: after each such failure the loop issues another
\* getUpdates request, and the remaining updates of the batch are handled.
C21_LoopSurvivesFailures ==
    /\ [](ppc # "ended")
    /\ []BatchHandled
    /\ [](RequestFailed => <>(ppc = "wait"))
    /\ \A u \in UpdateIds :
          []((/\ ppc = "batch"
              /\ Head(batch) = u
              /\ \E v \in UpdateIds : outcome[v] = "raised") => <>(dispatched[u] >= 1))

C21_Witness ==
    /\ received = <<1, 2>>
    /\ outcome[1] = "raised"
    /\ dispatched[2] = 1
    /\ polled = "error"
    /\ ppc = "wait"
\* the step in which a getUpdates request fails
RequestFails == ppc = "wait" /\ polled' \in FailureKinds /\ ppc' # "wait"

\* the loop has gone through the whole of a batch that held updates
BatchDone == polled = "ok" /\ ppc # "batch" /\ received # <<>>

\* C29: in the polling loop, with getUpdates returning the updates in
\* increasing order of update_id, the offset never decreases, a failed
\* getUpdates request leaves it unchanged, after a batch it is the id of the
\* last update + 1, and every update is handed to the dispatcher at most
\* once, also when handling it raised an exception.
C29_OffsetAdvancesOncePerUpdate ==
    /\ [](BatchDone => offset = received[Len(received)] + 1)
    /\ [](\A u \in UpdateIds : dispatched[u] <= 1)
    /\ [][offset' >= offset /\ (RequestFails => offset' = offset)]_vars

C29_Witness ==
    /\ \A u \in UpdateIds : dispatched[u] = 1
    /\ outcome[1] = "raised"
    /\ offset = MaxUpdates + 1
    /\ polled = "timeout"
    /\ ppc = "wait"

\* the update is a click on a tag button of a detail message
TagClick == upd.kind = "click" /\ StartsWithAt(upd.data, 1, "tag:") /\ upd.origin = NoOrigin

\* the handler of the update has returned or has been left by an exception
Handled == vpc \in {"shown", "raised", "done"}

\* C22: a click on a tag button (payload tag:name) starts a search for name
\* at page 1 and ends with a results, no-results or search-failed message
\* for that search shown to the user, not with an unhandled error.
C22_TagClickEndsWithMessage ==
    (TagClick /\ Handled) =>
        /\ unhandled = ""
        /\ shown.kind \in {"results", "noresults", "failed"}
        /\ asked.listing = "search"
        /\ "tag:" \o asked.keyword = upd.data
        /\ asked.page = 1

\* the update is a click on the previous or next button of a page of search
\* results, and button_callback has dispatched it
NavClickDispatched ==
    /\ upd.origin.dir # ""
    /\ upd.origin.listing = "search"
    /\ vpc # "received"

\* C23: for every keyword, one that contains a colon included, and every
\* page n, the payload on the previous / next button of page n, handled by
\* button_callback, performs a search for the same keyword on page n-1 / n+1.
C23_PagePayloadRoundTrip ==
    NavClickDispatched =>
        /\ shown.kind # "invalid"
        /\ asked.listing = "search"
        /\ asked.keyword = upd.origin.keyword
        /\ asked.page = upd.origin.page + (IF upd.origin.dir = "next" THEN 1 ELSE -1)

\* C27: on a results page the next-page button is shown only if the catalog
\* holds an item on the following page, pages counted with the page size
\* asked of the catalog, and a click on a next-page button never ends with
\* the no-results message.
C27_NextButtonLeadsToItems ==
    /\ (shown.kind = "results" /\ shown.next # "") =>
           catalog > shown.page * PageSizeAsked(rpp)
    /\ (upd.origin.dir = "next" /\ vpc = "shown") => shown.kind # "noresults"

\* re.findall: the positions at which the matches of the inline pattern begin
RECURSIVE MatchStartsFrom(_, _, _)
MatchStartsFrom(s, starts, i) ==
    LET p == First({q \in starts : q >= i})
    IN  IF p = 0 THEN <<>>
        ELSE <<p>> \o MatchStartsFrom(s, starts, MatchAt(s, p).end)

KeyOccurrences(s) == MatchStartsFrom(s, {i \in 1..Len(s) : MatchAt(s, i).ok}, 1)

\* the lower-cased key of the occurrence that begins at p
KeyOf(s, p) == Strip(Lower(MatchAt(s, p).key))

\* the position of the colon of the occurrence that begins at p
ColonOf(s, p) == SkipSpace(s, p + Len(MatchAt(s, p).key))

\* the text between the colon and the first comma or newline that follows
\* the colon, trimmed
ValueToLineEnd(s, p) ==
    Strip(SubSeq(s, ColonOf(s, p) + 1, RunEnd(s, ColonOf(s, p) + 1, {",", "\n"}) - 1))

\* the occurrences that no later occurrence of the same key overwrites
Surviving(s) ==
    LET occ == KeyOccurrences(s)
    IN  {occ[n] : n \in {m \in 1..Len(occ) :
                          \A l \in (m + 1)..Len(occ) : KeyOf(s, occ[l]) # KeyOf(s, occ[m])}}

\* C24: for each recognised key occurrence found by the inline scan, the
\* stored value is the text between the colon of the key and the first
\* comma or newline that follows the colon, trimmed; a colon directly
\* followed by a newline does not take the value from the next line.
C24_ValueEndsAtCommaOrNewline ==
    pc = "lora" =>
        \A p \in Surviving(text) :
            /\ HasKey(params, KeyOf(text, p))
            /\ Get(params, KeyOf(text, p)) = PyStr(ValueToLineEnd(text, p))

\* the keys the inline scan finds more than once in s
Repeated(s) ==
    LET occ == KeyOccurrences(s)
    IN  {KeyOf(s, occ[m]) : m \in {n \in 1..Len(occ) :
                                     \E l \in 1..Len(occ) : l # n /\ KeyOf(s, occ[l]) = KeyOf(s, occ[n])}}

FirstOccurrence(s, k) ==
    LET occ == KeyOccurrences(s) IN First({occ[n] : n \in {m \in 1..Len(occ) : KeyOf(s, occ[m]) = k}})

LastOccurrence(s, k) ==
    LET occ == KeyOccurrences(s) IN Last({occ[n] : n \in {m \in 1..Len(occ) : KeyOf(s, occ[m]) = k}})

\* the number of different keys seen up to the first occurrence of k
RankOfFirst(s, k) ==
    LET occ == KeyOccurrences(s)
    IN  Cardinality({KeyOf(s, occ[n]) : n \in {m \in 1..Len(occ) : occ[m] <= FirstOccurrence(s, k)}})

\* C25: when a recognised key occurs more than once in the text, in the same
\* or a different letter case, the map parse_parameters returns has a single
\* entry for its lower-cased form, with the value of the last occurrence, at
\* the position of the first occurrence.
C25_RepeatedKeyLastValueFirstPlace ==
    pc = "detail_parsed" =>
        \A k \in Repeated(text) :
            /\ Cardinality({i \in 1..Len(params) : params[i].k = k}) = 1
            /\ Get(params, k) = PyStr(RStripComma(Strip(MatchAt(text, LastOccurrence(text, k)).value)))
            /\ KeyIndex(params, k) = RankOfFirst(text, k)

\* two keys, each written twice in different letter cases and with
\* different values, the second key first seen between the two occurrences
\* of the first
C25_Witness ==
    /\ pc = "detail_parsed"
    /\ text = "Model hash: a1, model: base, MODEL HASH: b2, Model: xl"
    /\ params = << [k |-> "model hash", v |-> PyStr("b2")], [k |-> "model", v |-> PyStr("xl")] >>

\* C26: for a workflow JSON text with a Checkpoint node and a Lora node whose
\* inputs.text is <lora:NAME:WEIGHT>, parse_parameters returns a map with
\* checkpoint, lora = NAME and workflow = "ComfyUI".
C26_LoraTagWorkflowIsRead ==
    (pc = "explain_ready" /\ text = LoraTagWorkflow) =>
        /\ HasKey(params, "checkpoint")
        /\ HasKey(params, "lora") /\ Get(params, "lora") = PyStr("style")
        /\ HasKey(params, "workflow") /\ Get(params, "workflow") = PyStr("ComfyUI")

\* C30: the quick summary of the detail view is get_quick_summary of the map
\* the explanation view explains for the same work; when the prompt text
\* yields no parameters and ai_json yields some, both use the map of ai_json.
C30_ViewsUseSameMap ==
    pc = "explained" => summary = QuickSummary(params).out

\* the click of p has been handled and no other click has been touched yet
HandledAlone(p) ==
    /\ handlers[p].pc = "done"
    /\ \A q \in Procs \ {p} : handlers[q].pc = "received"

\* C28: after a sub_author or unsub_author click has been handled, whatever
\* the store and the clicked message were before, the subscription button
\* of the message has the subscribed form (payload unsub_author:id) exactly
\* when the store holds the (user, author) subscription, and the subscribe
\* form (payload sub_author:id:name) otherwise.
C28_ButtonShowsStoreState ==
    \A p \in Procs :
        HandledAlone(p) =>
            IF RowOfClick(store, handlers[p]) # {}
            THEN handlers[p].button.data = "unsub_author:" \o ClickTarget(handlers[p])
            ELSE StartsWithAt(handlers[p].button.data, 1,
                              "sub_author:" \o ClickTarget(handlers[p]) \o ":")

====
